---- MODULE Spec2Model ----
(***************************************************************************)
(* Model of dashboard_app.py: a Streamlit script that loads an uploaded    *)
(* table, normalises it (process_loaded_df), filters it by municipality,   *)
(* neighbourhood and status, and computes KPIs, chart distributions and    *)
(* the productivity ranking over the filtered subset.  One run of the      *)
(* script is a sequence of steps (upload handling and loading, sidebar     *)
(* filters, KPI metrics, charts, productivity); between runs the user acts *)
(* and the clock advances.  load_data, prepare_map_points and the display  *)
(* block of the ranking are also run on their own, on arguments drawn at   *)
(* the start.                                                              *)
(***************************************************************************)
EXTENDS Integers, Sequences, FiniteSets, TLC

VARIABLES
    uploaded_file,  \* the file held by st.sidebar.file_uploader (NoFile if none)
    now,            \* int(time.time()), the clock in seconds
    disk,           \* temporary directory: path -> file written there
    cache,          \* st.cache_data of load_data: path -> result
    session,        \* st.session_state
    parsed,         \* the DataFrame object the parser handed to process_loaded_df
    df,             \* the table of this run (result of load_data)
    df_selection,   \* the filtered subset of this run
    selected,       \* selected_municipio, selected_bairro, selected_status of this run
    kpi,            \* the KPI values computed by this run
    dist,           \* the distributions charted by this run: column -> entries
    window,         \* the productivity window chosen in this run
    df_filtrado,    \* the rows of the productivity window
    ranking,        \* the productivity ranking of this run
    metrics,        \* the four productivity metrics of this run
    msgs,           \* messages shown to the user by this run
    exc,            \* exception that ended this run ("none" if none)
    pc,             \* position of the script run
    pressed,        \* the button whose click started this run ("none" if none)
    duplicadas,     \* df_duplicadas_completo, the duplicate-registration report
    display,        \* the ranking table on screen and the CSV offered for download
    call,           \* arguments of a function called on its own
    ret,            \* what the calls of that function returned so far
    build           \* what the installed libraries do where the code leaves it open

\* the variables of the script and those of a function called on its own
script == <<uploaded_file, now, disk, cache, session, parsed, df, df_selection, selected,
            kpi, dist, window, df_filtrado, ranking, metrics, msgs, exc, pc,
            pressed, duplicadas, display>>
alone == <<call, ret, build>>
vars == <<script, alone>>

(***************************************************************************)
(* Bounds of the model                                                     *)
(***************************************************************************)
MaxRows == 2      \* rows of an uploaded table (normalisation and filter inputs)
MaxDupRows == 5   \* rows of an uploaded table (duplicate-identifier inputs)
MaxProdRows == 3  \* rows of an uploaded table (productivity inputs)
MaxTime == 2      \* seconds the clock advances
MaxDistRows == 3  \* rows of an uploaded table (chart inputs)
MaxMapRows == 3   \* rows of a table handed to prepare_map_points
MaxPoints == 2    \* the largest max_points handed to prepare_map_points
MaxCalls == 2     \* calls of a function on the same arguments
MaxAgents == 102  \* agents of a ranking handed to the display block

(***************************************************************************)
(* Cell values: a missing value (NaN/None), a text or a number.            *)
(***************************************************************************)
NA == [k |-> "na", s |-> "", n |-> 0]
Str(s) == [k |-> "str", s |-> s, n |-> 0]
Num(n) == [k |-> "num", s |-> "", n |-> n]
IsNA(v) == v.k = "na"

SENTINEL == "Não informado"

EXPECTED_COLUMNS ==
    [MUNICIPIO |-> "string", BAIRRO |-> "string", TIPO_CADASTRO |-> "string",
     SITUACAO_LIGACAO |-> "string", IRREGULARIDADE_IDENTIFICADA |-> "string",
     SITUACAO_HIDROMETRO |-> "string", TIPO_EDIFICACAO |-> "string",
     FONTE_ALTERNATIVA |-> "string", TOTAL_DE_MORADORES |-> "float64",
     QUANTOS_LITROS_TOTAIS |-> "float64", PADRAO_DO_IMOVEL |-> "string",
     LOGRADOURO |-> "string", QUADRA |-> "string", TIPO_VISITA |-> "string"]

category_cols ==
    {"MUNICIPIO", "BAIRRO", "STATUS", "SITUACAO_LIGACAO", "TIPO_VISITA",
     "PADRAO_DO_IMOVEL", "IRREGULARIDADE_IDENTIFICADA", "TIPO_EDIFICACAO"}

numeric_cols == <<"TOTAL_DE_MORADORES", "QUANTOS_LITROS_TOTAIS">>

(***************************************************************************)
(* Text and number conversions of Python and pandas                        *)
(***************************************************************************)
\* str.upper() on the texts of the model
UpperTable ==
    ("normal" :> "NORMAL") @@ ("Quebrado" :> "QUEBRADO") @@
    ("instalado" :> "INSTALADO") @@ ("Outro" :> "OUTRO") @@
    ("Não informado" :> "NÃO INFORMADO")
Upper(s) == IF s \in DOMAIN UpperTable THEN UpperTable[s] ELSE s

\* str(x) of a non-missing cell
PyStr(v) == IF v.k = "num" THEN ToString(v.n) ELSE v.s

\* Series.astype('string'): every non-missing value becomes its text
AsString(v) == IF IsNA(v) THEN NA ELSE Str(PyStr(v))

\* Series.fillna(value)
Fillna(v, value) == IF IsNA(v) THEN value ELSE v

\* the numerals pd.to_numeric parses among the texts of the model
Numerals == ("3" :> 3) @@ ("0" :> 0)

\* pd.to_numeric(errors='coerce') of one cell
ToNumeric(v) ==
    IF v.k = "num" THEN v
    ELSE IF v.k = "str" /\ v.s \in DOMAIN Numerals THEN Num(Numerals[v.s])
    ELSE NA

MantissaLimit == 16777216   \* 2^24: float32 holds 24 significant bits

RECURSIVE Ulp32(_, _)
Ulp32(n, u) == IF n \div u < MantissaLimit THEN u ELSE Ulp32(n, 2 * u)

\* astype('float32') of a non-negative whole number: round to nearest, ties to even
Float32(n) ==
    LET u == Ulp32(n, 1)
        q == n \div u
        r == n % u
    IN  IF 2 * r < u THEN q * u
        ELSE IF 2 * r > u THEN (q + 1) * u
        ELSE IF q % 2 = 0 THEN q * u ELSE (q + 1) * u

AsFloat32(v) == IF v.k = "num" THEN Num(Float32(v.n)) ELSE v

(***************************************************************************)
(* Tables (pandas DataFrame): a set of columns, a sequence of rows, the    *)
(* dtype and categories of each column, and the columns whose data makes   *)
(* a pandas conversion raise.                                              *)
(***************************************************************************)
EmptyDataFrame == [cols |-> {}, rows |-> <<>>, dtype |-> <<>>, cats |-> <<>>, bad |-> {}]

\* DataFrame.empty
IsEmpty(t) == t.cols = {} \/ Len(t.rows) = 0

ColumnValues(t, c) == {t.rows[i][c] : i \in DOMAIN t.rows}

\* df[c] = series: the column c set to the values of a series, row by row
WithColumn(t, c, series, dt) ==
    [cols  |-> t.cols \cup {c},
     rows  |-> [i \in DOMAIN t.rows |->
                  [x \in t.cols \cup {c} |-> IF x = c THEN series[i] ELSE t.rows[i][x]]],
     dtype |-> [x \in t.cols \cup {c} |-> IF x = c THEN dt ELSE t.dtype[x]],
     cats  |-> [x \in t.cols \cup {c} |-> IF x = c THEN {} ELSE t.cats[x]],
     bad   |-> t.bad]

\* df[mask]: the rows whose index is in K, in their order
RECURSIVE RowsAt(_, _, _)
RowsAt(rows, K, i) ==
    IF i > Len(rows) THEN <<>>
    ELSE (IF i \in K THEN <<rows[i]>> ELSE <<>>) \o RowsAt(rows, K, i + 1)

Mask(t, K) == [t EXCEPT !.rows = RowsAt(t.rows, K, 1)]

(***************************************************************************)
(* process_loaded_df                                                       *)
(***************************************************************************)
\* the conversion of column c raises (caught at line 74 or 103)
CoercionRaises(t, c) ==
    \/ c \in t.bad
    \/ /\ EXPECTED_COLUMNS[c] = "string"
       /\ t.dtype[c] = "category"
       /\ Str(SENTINEL) \notin t.cats[c]

CoerceCell(c, v) ==
    IF EXPECTED_COLUMNS[c] = "string"
    THEN AsString(Fillna(v, Str(SENTINEL)))
    ELSE Fillna(ToNumeric(v), Num(0))

\* lines 67-75: per-column coercion, a failing column is left as it was
CoerceColumns(t) ==
    LET ok(c) == c \in DOMAIN EXPECTED_COLUMNS /\ ~CoercionRaises(t, c)
    IN  [t EXCEPT
          !.rows  = [i \in DOMAIN t.rows |->
                       [c \in t.cols |-> IF ok(c) THEN CoerceCell(c, t.rows[i][c])
                                         ELSE t.rows[i][c]]],
          !.dtype = [c \in t.cols |-> IF ok(c) THEN EXPECTED_COLUMNS[c] ELSE t.dtype[c]],
          !.cats  = [c \in t.cols |-> IF ok(c) THEN {} ELSE t.cats[c]]]

HIDROMETRO_SIM == {"NORMAL", "QUEBRADO", "INSTALADO"}

PossuiHidrometroNoUpper(x) ==
    IF ~IsNA(x) /\ PyStr(x) \in HIDROMETRO_SIM THEN Str("SIM") ELSE Str("NÃO")

\* line 80: the lambda applied to each SITUACAO_HIDROMETRO value
PossuiHidrometro(x) ==
    IF ~IsNA(x) /\ Upper(PyStr(x)) \in HIDROMETRO_SIM THEN Str("SIM") ELSE Str("NÃO")

AddPossuiHidrometroFromItself(t) ==
    IF "SITUACAO_HIDROMETRO" \in t.cols
    THEN LET from == IF "POSSUI_HIDROMETRO" \in t.cols THEN "POSSUI_HIDROMETRO"
                     ELSE "SITUACAO_HIDROMETRO"
         IN  WithColumn(t, "POSSUI_HIDROMETRO",
                        [i \in DOMAIN t.rows |-> PossuiHidrometro(t.rows[i][from])], "object")
    ELSE t

\* lines 78-81
AddPossuiHidrometro(t) ==
    IF "SITUACAO_HIDROMETRO" \in t.cols
    THEN WithColumn(t, "POSSUI_HIDROMETRO",
                    [i \in DOMAIN t.rows |->
                       PossuiHidrometro(t.rows[i]["SITUACAO_HIDROMETRO"])], "object")
    ELSE t

EnsureColumn(t, c) ==
    IF c \notin t.cols THEN WithColumn(t, c, [i \in DOMAIN t.rows |-> Num(0)], "int64") ELSE t

EnsureNumericOnlyFirst(t) == EnsureColumn(t, "TOTAL_DE_MORADORES")

\* lines 84-87
EnsureNumeric(t) ==
    EnsureColumn(EnsureColumn(t, "TOTAL_DE_MORADORES"), "QUANTOS_LITROS_TOTAIS")

\* lines 95-97: astype('category')
AsCategory(t) ==
    LET conv(c) == c \in category_cols /\ t.dtype[c] # "category"
    IN  [t EXCEPT
          !.dtype = [c \in t.cols |-> IF conv(c) THEN "category" ELSE t.dtype[c]],
          !.cats  = [c \in t.cols |->
                       IF conv(c) THEN {v \in ColumnValues(t, c) : ~IsNA(v)} ELSE t.cats[c]]]

\* line 102 for one column
Downcast(t, c) ==
    [t EXCEPT
      !.rows  = [i \in DOMAIN t.rows |->
                   [x \in t.cols |->
                      IF x = c THEN AsFloat32(Fillna(ToNumeric(t.rows[i][x]), Num(0)))
                      ELSE t.rows[i][x]]],
      !.dtype = [x \in t.cols |-> IF x = c THEN "float32" ELSE t.dtype[x]]]

\* lines 100-102: the loop stops at the first column that raises (line 103)
RECURSIVE DowncastFrom(_, _)
DowncastFrom(t, i) ==
    IF i > Len(numeric_cols) THEN t
    ELSE IF numeric_cols[i] \notin t.cols THEN DowncastFrom(t, i + 1)
    ELSE IF numeric_cols[i] \in t.bad THEN t
    ELSE DowncastFrom(Downcast(t, numeric_cols[i]), i + 1)

\* lines 90-105
OptimizeTypes(t) == DowncastFrom(AsCategory(t), 1)

\* lines 64-110
process_loaded_df(t) == OptimizeTypes(EnsureNumeric(AddPossuiHidrometro(CoerceColumns(t))))

\* the table object passed to process_loaded_df, after the call: every step
\* assigns into the columns of its argument (df[col] = ...) and line 110
\* returns that same object
InPlace(t) == process_loaded_df(t)

(***************************************************************************)
(* Files, _save_uploaded_file and load_data                                *)
(***************************************************************************)
NoFile == [suffix |-> "", format |-> "none", table |-> EmptyDataFrame]
NoPath == [t |-> -1, suffix |-> ""]

\* str.lower() on the suffixes of the model
Lower(s) ==
    LET table == (".CSV" :> ".csv") @@ (".Csv" :> ".csv")
                    @@ (".PARQUET" :> ".parquet") @@ (".XLSX" :> ".xlsx")
    IN  IF s \in DOMAIN table THEN table[s] ELSE s

ParserForCaseSensitive(path) ==
    IF path.suffix = ".parquet" THEN "parquet"
    ELSE IF path.suffix = ".csv" THEN "csv"
    ELSE "excel"

\* lines 117-123: the parser load_data chooses for a path
ParserFor(path) ==
    IF Lower(path.suffix) = ".parquet" THEN "parquet"
    ELSE IF Lower(path.suffix) = ".csv" THEN "csv"
    ELSE "excel"

\* lines 52-54: the temporary path of an upload
TmpPath(file, t) == [t |-> t, suffix |-> file.suffix]

LoadDataRaising(path, files) ==
    LET f == files[path]
    IN  IF ParserFor(path) = f.format
        THEN [df |-> process_loaded_df(f.table), error |-> FALSE, raised |-> FALSE,
              parser |-> ParserFor(path)]
        ELSE [df |-> EmptyDataFrame, error |-> FALSE, raised |-> TRUE,
              parser |-> ParserFor(path)]

\* lines 115-130: the body of load_data, with the parser it called; reading
\* fails when the parser chosen from the extension does not fit the content of
\* the file
load_data(path, files) ==
    LET f == files[path]
    IN  IF ParserFor(path) = f.format
        THEN [df |-> process_loaded_df(f.table), error |-> FALSE, raised |-> FALSE,
              parser |-> ParserFor(path)]
        ELSE [df |-> EmptyDataFrame, error |-> TRUE, raised |-> FALSE,
              parser |-> ParserFor(path)]

(***************************************************************************)
(* Sidebar filters                                                         *)
(***************************************************************************)
Unset == [has |-> FALSE, v |-> {}]
SetTo(S) == [has |-> TRUE, v |-> S]

EmptySession ==
    [uploaded_path |-> NoPath, file_uploaded |-> FALSE,
     municipios |-> Unset, bairros |-> Unset, status |-> Unset]

\* sorted(values) raises TypeError when a text is compared with a number or NaN
SortRaises(S) == \E a, b \in S : a.k = "str" /\ b.k # "str"

\* One filter block (lines 707-725, 733-751, 760-778): the two buttons, the
\* session default, the multiselect (which rejects a default outside its
\* options and otherwise returns the selection held by the keyed widget, not
\* its `default`) and the write-back.
FilterWidget(state, options, todos, limpar, pick) ==
    LET s1 == IF todos THEN SetTo(options) ELSE IF limpar THEN SetTo({}) ELSE state
        s2 == IF ~s1.has THEN SetTo(options) ELSE s1
    IN  IF ~(s2.v \subseteq options)
        THEN [exc |-> "StreamlitAPIException", state |-> s2, selected |-> {}]
        ELSE [exc |-> "none", state |-> SetTo(pick), selected |-> pick]

SelectionWithoutStatus(t, selected_municipio, selected_bairro, selected_status) ==
    Mask(t, {i \in DOMAIN t.rows :
               /\ t.rows[i]["MUNICIPIO"] \in selected_municipio
               /\ t.rows[i]["BAIRRO"] \in selected_bairro})

SelectionEmptyMeansAll(t, selected_municipio, selected_bairro, selected_status) ==
    Mask(t, {i \in DOMAIN t.rows :
               /\ selected_municipio # {} => t.rows[i]["MUNICIPIO"] \in selected_municipio
               /\ selected_bairro # {} => t.rows[i]["BAIRRO"] \in selected_bairro
               /\ ("STATUS" \in t.cols /\ selected_status # {})
                     => t.rows[i]["STATUS"] \in selected_status})

\* lines 780-786: df_selection
Selection(t, selected_municipio, selected_bairro, selected_status) ==
    Mask(t, {i \in DOMAIN t.rows :
               /\ t.rows[i]["MUNICIPIO"] \in selected_municipio
               /\ t.rows[i]["BAIRRO"] \in selected_bairro
               /\ "STATUS" \in t.cols => t.rows[i]["STATUS"] \in selected_status})

\* lines 702-786 on a non-empty table: the outcome of the sidebar for the
\* button pressed and the selections made in the three multiselects
Sidebar(t, ss, btn, pickM, pickB, pickS) ==
    LET Fail(e, s) == [exc |-> e, session |-> s, sel |-> EmptyDataFrame,
                       used |-> [m |-> {}, b |-> {}, s |-> {}]]
    IN
    IF "MUNICIPIO" \notin t.cols THEN Fail("KeyError", ss)
    ELSE
    LET municipio_options == ColumnValues(t, "MUNICIPIO")
    IN
    IF SortRaises(municipio_options) THEN Fail("TypeError", ss)
    ELSE
    LET m == FilterWidget(ss.municipios, municipio_options,
                          btn = "todos_mun", btn = "limpar_mun",
                          pickM \cap municipio_options)
        ss1 == [ss EXCEPT !.municipios = m.state]
    IN
    IF m.exc # "none" THEN Fail(m.exc, ss1)
    ELSE IF "BAIRRO" \notin t.cols THEN Fail("KeyError", ss1)
    ELSE
    LET bairro_options ==
            {t.rows[i]["BAIRRO"] : i \in {j \in DOMAIN t.rows :
                                            t.rows[j]["MUNICIPIO"] \in m.selected}}
    IN
    IF SortRaises(bairro_options) THEN Fail("TypeError", ss1)
    ELSE
    LET b == FilterWidget(ss1.bairros, bairro_options,
                          btn = "todos_bairro", btn = "limpar_bairro",
                          pickB \cap bairro_options)
        ss2 == [ss1 EXCEPT !.bairros = b.state]
    IN
    IF b.exc # "none" THEN Fail(b.exc, ss2)
    ELSE IF "STATUS" \notin t.cols
    THEN [exc |-> "none", session |-> ss2,
          sel |-> Selection(t, m.selected, b.selected, {}),
          used |-> [m |-> m.selected, b |-> b.selected, s |-> {}]]
    ELSE
    LET status_options == {v \in ColumnValues(t, "STATUS") : ~IsNA(v)}
    IN
    IF SortRaises(status_options) THEN Fail("TypeError", ss2)
    ELSE
    LET s == FilterWidget(ss2.status, status_options,
                          btn = "todos_status", btn = "limpar_status",
                          pickS \cap status_options)
        ss3 == [ss2 EXCEPT !.status = s.state]
    IN
    IF s.exc # "none" THEN Fail(s.exc, ss3)
    ELSE [exc |-> "none", session |-> ss3,
          sel |-> Selection(t, m.selected, b.selected, s.selected),
          used |-> [m |-> m.selected, b |-> b.selected, s |-> s.selected]]

(***************************************************************************)
(* KPI metrics                                                             *)
(***************************************************************************)
RECURSIVE SumF(_)
SumF(f) ==
    IF DOMAIN f = {} THEN 0
    ELSE LET x == CHOOSE x \in DOMAIN f : TRUE
         IN  f[x] + SumF([y \in DOMAIN f \ {x} |-> f[y]])

\* Series.value_counts(): the number of rows of each non-missing value
ValueCounts(t, c) ==
    [v \in {w \in ColumnValues(t, c) : ~IsNA(w)} |->
        Cardinality({i \in DOMAIN t.rows : t.rows[i][c] = v})]

MatriculasDuplicadasWithZero(sel) ==
    LET contagem_matriculas == ValueCounts(sel, "MATRICULA")
        dup == {v \in DOMAIN contagem_matriculas : contagem_matriculas[v] > 1}
    IN  SumF([v \in dup |-> contagem_matriculas[v]]) - Cardinality(dup)

\* lines 839-845: matriculas_duplicadas
MatriculasDuplicadas(sel) ==
    LET df_matriculas_validas ==
            Mask(sel, {i \in DOMAIN sel.rows : sel.rows[i]["MATRICULA"] # Num(0)})
        contagem_matriculas == ValueCounts(df_matriculas_validas, "MATRICULA")
        dup == {v \in DOMAIN contagem_matriculas : contagem_matriculas[v] > 1}
    IN  SumF([v \in dup |-> contagem_matriculas[v]]) - Cardinality(dup)

\* a quotient num / den; den = 0 stands for NaN
Ratio(n, d) == [num |-> n, den |-> d]
Zero == Ratio(0, 1)

PercHidrometroUnguarded(sel) ==
    IF "POSSUI_HIDROMETRO" \in sel.cols
    THEN LET counts == ValueCounts(sel, "POSSUI_HIDROMETRO")
         IN  Ratio((IF Str("SIM") \in DOMAIN counts THEN counts[Str("SIM")] ELSE 0) * 100,
                   SumF(counts))
    ELSE Zero

\* lines 807-810: value_counts(normalize=True).get('SIM', 0) * 100
PercHidrometro(sel) ==
    IF "POSSUI_HIDROMETRO" \in sel.cols
    THEN LET counts == ValueCounts(sel, "POSSUI_HIDROMETRO")
         IN  IF Str("SIM") \in DOMAIN counts
             THEN Ratio(counts[Str("SIM")] * 100, SumF(counts))
             ELSE Zero
    ELSE Zero

MediaMoradoresAllRows(sel) ==
    IF "TOTAL_DE_MORADORES" \in sel.cols
    THEN LET rows == {i \in DOMAIN sel.rows : sel.rows[i]["TOTAL_DE_MORADORES"].k = "num"}
         IN  IF Cardinality(rows) > 0
             THEN Ratio(SumF([i \in rows |-> sel.rows[i]["TOTAL_DE_MORADORES"].n]),
                        Cardinality(rows))
             ELSE Zero
    ELSE Zero

\* lines 821-826: the mean of TOTAL_DE_MORADORES over the rows with a value >= 1
MediaMoradores(sel) ==
    IF "TOTAL_DE_MORADORES" \in sel.cols
    THEN LET df_com_moradores ==
                 {i \in DOMAIN sel.rows :
                    /\ sel.rows[i]["TOTAL_DE_MORADORES"].k = "num"
                    /\ sel.rows[i]["TOTAL_DE_MORADORES"].n >= 1}
         IN  IF Cardinality(df_com_moradores) > 0
             THEN Ratio(SumF([i \in df_com_moradores |->
                                sel.rows[i]["TOTAL_DE_MORADORES"].n]),
                        Cardinality(df_com_moradores))
             ELSE Zero
    ELSE Zero

NoKpi == [total_clientes |-> 0, sim |-> 0, possui_n |-> 0,
          moradores_sum |-> 0, moradores_n |-> 0, matriculas_duplicadas |-> 0,
          perc_hidrometro |-> Zero, media_moradores |-> Zero]

\* the comparison TOTAL_DE_MORADORES >= 1 raises TypeError on a text cell
MoradoresRaises(sel) ==
    /\ "TOTAL_DE_MORADORES" \in sel.cols
    /\ \E v \in ColumnValues(sel, "TOTAL_DE_MORADORES") : v.k = "str"

\* lines 795-845: the four KPIs; the percentage is sim / possui_n * 100 and
\* the mean is moradores_sum / moradores_n (0 when the divisor is 0)
Kpis(sel) ==
    LET com == IF "TOTAL_DE_MORADORES" \in sel.cols
               THEN {i \in DOMAIN sel.rows :
                       /\ sel.rows[i]["TOTAL_DE_MORADORES"].k = "num"
                       /\ sel.rows[i]["TOTAL_DE_MORADORES"].n >= 1}
               ELSE {}
    IN  [total_clientes |-> Len(sel.rows),
         sim |-> IF "POSSUI_HIDROMETRO" \in sel.cols
                 THEN Cardinality({i \in DOMAIN sel.rows :
                                     sel.rows[i]["POSSUI_HIDROMETRO"] = Str("SIM")})
                 ELSE 0,
         possui_n |-> IF "POSSUI_HIDROMETRO" \in sel.cols
                      THEN Cardinality({i \in DOMAIN sel.rows :
                                          ~IsNA(sel.rows[i]["POSSUI_HIDROMETRO"])})
                      ELSE 0,
         moradores_sum |-> SumF([i \in com |-> sel.rows[i]["TOTAL_DE_MORADORES"].n]),
         moradores_n |-> Cardinality(com),
         matriculas_duplicadas |-> IF "MATRICULA" \in sel.cols
                                   THEN MatriculasDuplicadas(sel) ELSE 0,
         perc_hidrometro |-> PercHidrometro(sel),
         media_moradores |-> MediaMoradores(sel)]

(***************************************************************************)
(* Chart distributions                                                     *)
(***************************************************************************)
\* the orderings of a finite set
Perms(K) ==
    {p \in [1..Cardinality(K) -> K] : \A i, j \in 1..Cardinality(K) : p[i] = p[j] => i = j}

\* the orderings of K that a sort by ascending key leaves; Series.sort_values
\* uses numpy's quicksort, which is not stable, so the order of equal keys is
\* any order
OrdersBy(K, key) ==
    {p \in Perms(K) : \A i \in 1..(Cardinality(K) - 1) : key[p[i]] <= key[p[i + 1]]}

\* the orders in which a sort may leave the rows at the places G, all with
\* the same key: any order (one only when the rows are all alike)
TieOrders(t, G) ==
    IF \A i, j \in G : t.rows[i] = t.rows[j]
    THEN {[n \in 1..Cardinality(G) |-> t.rows[CHOOSE i \in G : TRUE]]}
    ELSE {[n \in 1..Cardinality(G) |-> t.rows[p[n]]] : p \in Perms(G)}

\* DataFrame.sort_values(c) on the rows at the places K, for a numeric column
RECURSIVE SortValues(_, _, _)
SortValues(t, K, c) ==
    IF K = {} THEN {<<>>}
    ELSE LET least == CHOOSE x \in {t.rows[i][c].n : i \in K} :
                          \A i \in K : x <= t.rows[i][c].n
             G == {i \in K : t.rows[i][c].n = least}
         IN  {a \o b : a \in TieOrders(t, G), b \in SortValues(t, K \ G, c)}

DuplicadasCompletoAllValid(sel) ==
    LET df_matriculas_validas ==
            Mask(sel, {i \in DOMAIN sel.rows : sel.rows[i]["MATRICULA"] # Num(0)})
        contagem_matriculas == ValueCounts(df_matriculas_validas, "MATRICULA")
        K == {i \in DOMAIN df_matriculas_validas.rows :
                ~IsNA(df_matriculas_validas.rows[i]["MATRICULA"])}
    IN  { [n \in DOMAIN sorted |->
             [x \in sel.cols \cup {"TOTAL_OCORRENCIAS"} |->
                IF x = "TOTAL_OCORRENCIAS"
                THEN Num(contagem_matriculas[sorted[n]["MATRICULA"]])
                ELSE sorted[n][x]]] :
            sorted \in SortValues(df_matriculas_validas, K, "MATRICULA") }

\* lines 848-855: df_duplicadas_completo, the rows of the identifiers counted
\* more than once, sorted by MATRICULA, each with the count of its identifier
DuplicadasCompleto(sel) ==
    LET df_matriculas_validas ==
            Mask(sel, {i \in DOMAIN sel.rows : sel.rows[i]["MATRICULA"] # Num(0)})
        contagem_matriculas == ValueCounts(df_matriculas_validas, "MATRICULA")
        matriculas_dup_list ==
            {v \in DOMAIN contagem_matriculas : contagem_matriculas[v] > 1}
        K == {i \in DOMAIN df_matriculas_validas.rows :
                df_matriculas_validas.rows[i]["MATRICULA"] \in matriculas_dup_list}
    IN  { [n \in DOMAIN sorted |->
             [x \in sel.cols \cup {"TOTAL_OCORRENCIAS"} |->
                IF x = "TOTAL_OCORRENCIAS"
                THEN Num(contagem_matriculas[sorted[n]["MATRICULA"]])
                ELSE sorted[n][x]]] :
            sorted \in SortValues(df_matriculas_validas, K, "MATRICULA") }

\* the index of Series.value_counts(): the non-missing values of the column,
\* and for the category dtype every category, observed in the rows or not
ValueCountsKeys(t, c) ==
    IF t.dtype[c] = "category" THEN t.cats[c]
    ELSE {v \in ColumnValues(t, c) : ~IsNA(v)}

CountOf(t, c, v) == Cardinality({i \in DOMAIN t.rows : t.rows[i][c] = v})

\* Series.value_counts().reset_index(): one entry per key, sorted by
\* descending count
ValueCountsSorted(t, c) ==
    LET K == ValueCountsKeys(t, c)
    IN  { [i \in DOMAIN p |-> [value |-> p[i], count |-> CountOf(t, c, p[i])]] :
            p \in OrdersBy(K, [v \in K |-> 0 - CountOf(t, c, v)]) }

\* str.strip() on the texts of the model
Strip(x) == IF x = " " THEN "" ELSE x

\* lines 1284-1288, 1331-1335, 1376-1380: the rows with a value other than
\* the sentinel and the blank text
Informed(t, c) ==
    Mask(t, {i \in DOMAIN t.rows :
               /\ ~IsNA(t.rows[i][c])
               /\ t.rows[i][c] # Str(SENTINEL)
               /\ Strip(PyStr(t.rows[i][c])) # ""})

\* the texts str(int(float(x))) rewrites (line 1296)
WholeNumbers == ("12" :> "12") @@ ("7.0" :> "7")

\* line 1295-1297: the label of a block
QuadraLabel(v) ==
    IF PyStr(v) \in DOMAIN WholeNumbers THEN Str(WholeNumbers[PyStr(v)]) ELSE Str(PyStr(v))

\* the block labels of the model in the order of Python's str comparison
TextOrder == <<"12", "7", "A">>
TextRank(x) == CHOOSE i \in DOMAIN TextOrder : TextOrder[i] = x

\* lines 1291-1299: the block distribution, relabelled and sorted by label
QuadraDist(t) ==
    LET K == {v \in ColumnValues(t, "QUADRA") : ~IsNA(v)}
    IN  { [i \in DOMAIN p |-> [value |-> QuadraLabel(p[i]),
                               count |-> CountOf(t, "QUADRA", p[i])]] :
            p \in OrdersBy(K, [v \in K |-> TextRank(QuadraLabel(v).s)]) }

\* the charts made of value_counts() of a column of df_selection
\* (lines 984, 1050, 1088, 1126, 1166)
count_charts == {"STATUS", "SITUACAO_LIGACAO", "IRREGULARIDADE_IDENTIFICADA",
                 "TIPO_EDIFICACAO", "PADRAO_EDIFICACAO"}

\* the charts made of value_counts() of the informed rows (lines 1329, 1374)
informed_charts == {"TIPO_VISITA", "PADRAO_DO_IMOVEL"}

\* the charts drawn for df_selection and the entries each may show
ChartsOf(sel) ==
    IF IsEmpty(sel) THEN {}
    ELSE (count_charts \cap sel.cols)
         \cup {c \in (informed_charts \cup {"QUADRA"}) \cap sel.cols :
                 ~IsEmpty(Informed(sel, c))}

ChartEntries(sel, c) ==
    IF c \in count_charts THEN ValueCountsSorted(sel, c)
    ELSE IF c = "QUADRA" THEN QuadraDist(Informed(sel, c))
    ELSE ValueCountsSorted(Informed(sel, c), c)

\* lines 983-1425: every way the charts of a run may come out
Distributions(sel) ==
    {d \in [ChartsOf(sel) -> UNION {ChartEntries(sel, c) : c \in ChartsOf(sel)}] :
       \A c \in ChartsOf(sel) : d[c] \in ChartEntries(sel, c)}

(***************************************************************************)
(* Productivity of the field agents                                        *)
(***************************************************************************)
\* the dates pd.to_datetime parses among the texts of the model, as yyyymmdd
DateTable == ("2024-01-31" :> 20240131) @@ ("2024-02-01" :> 20240201)

\* pd.to_datetime(errors='coerce') of one cell: a date, or NaT
ToDatetime(v) ==
    IF v.k = "str" /\ v.s \in DOMAIN DateTable THEN Num(DateTable[v.s]) ELSE NA

\* Timestamp.to_period('M') of a date, as yyyymm
ToPeriod(v) == IF IsNA(v) THEN NA ELSE Num(v.n \div 100)

\* the dates the clock or a date input may give
Days == {20240131, 20240201, 20240202}

TipoFiltro == {"Hoje", "Por Período", "Por Mês"}

NoWindow == [tipo |-> "none", hoje |-> 0, data_inicio |-> 0, data_fim |-> 0,
             mes_selecionado |-> 0]

\* line 1443: df_selection_copy with DATA_COLETA parsed
WithDates(sel) ==
    WithColumn(sel, "DATA_COLETA",
               [i \in DOMAIN sel.rows |-> ToDatetime(sel.rows[i]["DATA_COLETA"])],
               "datetime64[ns]")

ValidDates(t) == {v.n : v \in {w \in ColumnValues(t, "DATA_COLETA") : ~IsNA(w)}}

Min(S) == CHOOSE x \in S : \A y \in S : x <= y
Max(S) == CHOOSE x \in S : \A y \in S : x >= y

\* lines 1434-1502: the values the widgets of the window may return for the
\* filter type chosen: the current date, the two date inputs (shown only when
\* a date exists, and bounded by the first and the last date) and the month
\* (one of the months of the data)
WindowChoices(sel, tipo_filtro) ==
    IF "DATA_COLETA" \notin sel.cols THEN {NoWindow}
    ELSE LET dates == ValidDates(WithDates(sel))
         IN  IF tipo_filtro = "Hoje"
             THEN {[NoWindow EXCEPT !.tipo = tipo_filtro, !.hoje = h] : h \in Days}
             ELSE IF dates = {} THEN {[NoWindow EXCEPT !.tipo = tipo_filtro]}
             ELSE IF tipo_filtro = "Por Período"
             THEN {[NoWindow EXCEPT !.tipo = tipo_filtro, !.data_inicio = a, !.data_fim = b] :
                     a, b \in {d \in Days : Min(dates) <= d /\ d <= Max(dates)}}
             ELSE {[NoWindow EXCEPT !.tipo = tipo_filtro, !.mes_selecionado = m] :
                     m \in {d \div 100 : d \in dates}}

FiltradoExclusiveEnd(sel, w) ==
    IF "DATA_COLETA" \notin sel.cols THEN sel
    ELSE LET df_selection_copy == WithDates(sel)
             data(i) == df_selection_copy.rows[i]["DATA_COLETA"]
             with_mes == WithColumn(df_selection_copy, "ANO_MES",
                                    [i \in DOMAIN sel.rows |-> ToPeriod(data(i))],
                                    "period[M]")
         IN  IF w.tipo = "Hoje"
             THEN Mask(df_selection_copy,
                       {i \in DOMAIN sel.rows : ~IsNA(data(i)) /\ data(i).n = w.hoje})
             ELSE IF w.tipo = "Por Período"
             THEN IF ValidDates(df_selection_copy) # {}
                  THEN Mask(df_selection_copy,
                            {i \in DOMAIN sel.rows :
                               /\ ~IsNA(data(i))
                               /\ data(i).n >= w.data_inicio
                               /\ data(i).n < w.data_fim})
                  ELSE df_selection_copy
             ELSE IF ValidDates(df_selection_copy) # {}
                  THEN Mask(with_mes,
                            {i \in DOMAIN sel.rows :
                               with_mes.rows[i]["ANO_MES"] = Num(w.mes_selecionado)})
                  ELSE with_mes

\* lines 1441-1509: df_filtrado, the rows of the window
Filtrado(sel, w) ==
    IF "DATA_COLETA" \notin sel.cols THEN sel
    ELSE LET df_selection_copy == WithDates(sel)
             data(i) == df_selection_copy.rows[i]["DATA_COLETA"]
             with_mes == WithColumn(df_selection_copy, "ANO_MES",
                                    [i \in DOMAIN sel.rows |-> ToPeriod(data(i))],
                                    "period[M]")
         IN  IF w.tipo = "Hoje"
             THEN Mask(df_selection_copy,
                       {i \in DOMAIN sel.rows : ~IsNA(data(i)) /\ data(i).n = w.hoje})
             ELSE IF w.tipo = "Por Período"
             THEN IF ValidDates(df_selection_copy) # {}
                  THEN Mask(df_selection_copy,
                            {i \in DOMAIN sel.rows :
                               /\ ~IsNA(data(i))
                               /\ data(i).n >= w.data_inicio
                               /\ data(i).n <= w.data_fim})
                  ELSE df_selection_copy
             ELSE IF ValidDates(df_selection_copy) # {}
                  THEN Mask(with_mes,
                            {i \in DOMAIN sel.rows :
                               with_mes.rows[i]["ANO_MES"] = Num(w.mes_selecionado)})
                  ELSE with_mes

\* the messages of the window (lines 1453, 1483, 1505, 1508)
WindowMsgs(sel, w) ==
    IF "DATA_COLETA" \notin sel.cols THEN {"Coluna DATA_COLETA não encontrada nos dados"}
    ELSE IF w.tipo = "Hoje" THEN {"Mostrando dados de hoje"}
    ELSE IF ValidDates(WithDates(sel)) = {} THEN {"Não há dados de data disponíveis"}
    ELSE {}

RankingKeepsNan(counts) ==
    LET named == [i \in DOMAIN counts |->
                    [Reambulador |-> PyStr(counts[i].value), visitas |-> counts[i].count]]
        keep(e) == e.Reambulador # ""
    IN  SelectSeq(named, keep)

\* lines 1517-1524: the names as text, without the empty text and 'nan'
Ranking(counts) ==
    LET named == [i \in DOMAIN counts |->
                    [Reambulador |-> PyStr(counts[i].value), visitas |-> counts[i].count]]
        keep(e) == e.Reambulador # "" /\ e.Reambulador # "nan"
    IN  SelectSeq(named, keep)

\* lines 1514-1524: every way the ranking of df_filtrado may come out
Rankings(t) ==
    IF "REAMBULADOR" \in t.cols /\ ~IsEmpty(t)
    THEN {Ranking(counts) : counts \in ValueCountsSorted(t, "REAMBULADOR")}
    ELSE {<<>>}

RECURSIVE SumVisitas(_)
SumVisitas(r) == IF r = <<>> THEN 0 ELSE Head(r).visitas + SumVisitas(Tail(r))

NoMetrics == [reambuladores |-> 0, visitas |-> 0, media_visitas |-> Zero, melhor |-> 0]

MetricsLastRow(r) ==
    IF r = <<>> THEN NoMetrics
    ELSE [reambuladores |-> Len(r),
          visitas       |-> SumVisitas(r),
          media_visitas |-> Ratio(SumVisitas(r), Len(r)),
          melhor        |-> r[Len(r)].visitas]

\* lines 1526-1567: the four metrics of a non-empty ranking
Metrics(r) ==
    IF r = <<>> THEN NoMetrics
    ELSE [reambuladores |-> Len(r),
          visitas       |-> SumVisitas(r),
          media_visitas |-> Ratio(SumVisitas(r), Len(r)),
          melhor        |-> r[1].visitas]

\* lines 1613-1638: the first and the last collection hour of each ranked
\* agent ('N/A' without a dated row), or nothing without a DATA_COLETA column;
\* the dates of the model are days, whose hour is 00:00
Horarios(t, r) ==
    IF "DATA_COLETA" \notin t.cols THEN <<>>
    ELSE [i \in DOMAIN r |->
            IF \E j \in DOMAIN t.rows :
                  /\ ~IsNA(t.rows[j]["REAMBULADOR"])
                  /\ PyStr(t.rows[j]["REAMBULADOR"]) = r[i].Reambulador
                  /\ ~IsNA(t.rows[j]["DATA_COLETA"])
            THEN "00:00 - 00:00" ELSE "N/A"]

\* line 1646
max_show == 100

NoDisplay == [tabela |-> <<>>, csv |-> <<>>]

\* line 1669: ranking.to_csv(index=False), the header and one line of two
\* texts per row
ToCsv(r) ==
    <<<<"Reambulador", "Número de Visitas">>>>
        \o [i \in DOMAIN r |-> <<r[i].Reambulador, ToString(r[i].visitas)>>]

DisplayExportsShown(r, horarios) ==
    LET ranking_display ==
            [i \in DOMAIN r |->
               [Posicao |-> i, Reambulador |-> r[i].Reambulador, visitas |-> r[i].visitas,
                Horarios |-> IF horarios = <<>> THEN "" ELSE horarios[i]]]
        head(q) == SubSeq(q, 1, IF Len(q) < max_show THEN Len(q) ELSE max_show)
    IN  [tabela |-> head(ranking_display), csv |-> ToCsv(head(r))]

\* lines 1611-1673: the table on screen, ranking_display.head(max_show) with
\* the position column, and the CSV of the download button
Display(r, horarios) ==
    LET ranking_display ==
            [i \in DOMAIN r |->
               [Posicao |-> i, Reambulador |-> r[i].Reambulador, visitas |-> r[i].visitas,
                Horarios |-> IF horarios = <<>> THEN "" ELSE horarios[i]]]
        head(q) == SubSeq(q, 1, IF Len(q) < max_show THEN Len(q) ELSE max_show)
    IN  [tabela |-> head(ranking_display), csv |-> ToCsv(r)]

\* the messages of the ranking (lines 1685-1687)
RankingMsgs(t, r) ==
    IF ~("REAMBULADOR" \in t.cols /\ ~IsEmpty(t))
    THEN {"Coluna REAMBULADOR não encontrada nos dados ou não há dados disponíveis"}
    ELSE IF r = <<>> THEN {"Não há dados de reambuladores para o período selecionado"}
    ELSE {}

(***************************************************************************)
(* prepare_map_points (lines 238-264).  Coordinates are whole numbers of   *)
(* ten-thousandths of a degree.                                            *)
(***************************************************************************)
\* Series.round(3): the nearest thousandth of a degree, a half going to the
\* even thousandth
Round3(n) ==
    LET a == IF n < 0 THEN -n ELSE n
        q == a \div 10
        r == a % 10
        m == IF r > 5 \/ (r = 5 /\ q % 2 = 1) THEN 10 * (q + 1) ELSE 10 * q
    IN  IF n < 0 THEN -m ELSE m

\* the sorted order of the status texts
StatusOrder == <<"COLETADO", "PENDENTE", "VALIDAR">>

NoInfo == [msg |-> "none", n |-> 0, m |-> 0]

\* line 245: df_map.copy(), None
MapCopy(df_map) ==
    [rows  |-> df_map.rows,
     index |-> [i \in DOMAIN df_map.rows |-> i],
     info  |-> NoInfo]

\* lines 248-249 and 251 raise KeyError when one of the three columns is absent
GridRaises(df_map) == ~({"LATITUDE", "LONGITUDE", "STATUS"} \subseteq df_map.cols)

\* the key of a row in groupby(['lat_r', 'lon_r', 'STATUS'])
GridKey(row) ==
    LET round(v) == IF v.k = "num" THEN Num(Round3(v.n)) ELSE v
    IN  <<round(row["LATITUDE"]), round(row["LONGITUDE"]), row["STATUS"]>>

\* the rows groupby keeps: a row with a missing key is in no group
Keyed(df_map) ==
    {i \in DOMAIN df_map.rows : \A j \in 1..3 : ~IsNA(GridKey(df_map.rows[i])[j])}

\* the groups of groupby(...).size(): the key triples of the rows, or, when
\* STATUS has the category dtype and groupby does not keep to the observed
\* triples, the product of the levels of the three keys
GridGroups(df_map, observed) ==
    LET Level(j) == {GridKey(df_map.rows[i])[j] : i \in DOMAIN df_map.rows} \ {NA}
    IN  IF df_map.dtype["STATUS"] = "category" /\ ~observed
        THEN Level(1) \X Level(2) \X df_map.cats["STATUS"]
        ELSE {GridKey(df_map.rows[i]) : i \in Keyed(df_map)}

GroupBefore(a, b) ==
    LET rank(v) == CHOOSE i \in DOMAIN StatusOrder : StatusOrder[i] = v.s
    IN  \/ a[1].n < b[1].n
        \/ a[1].n = b[1].n /\ a[2].n < b[2].n
        \/ a[1].n = b[1].n /\ a[2].n = b[2].n /\ rank(a[3]) <= rank(b[3])

\* groupby sorts the groups by their keys
RECURSIVE SortGroups(_)
SortGroups(G) ==
    IF G = {} THEN <<>>
    ELSE LET g == CHOOSE x \in G : \A y \in G : GroupBefore(x, y)
         IN  <<g>> \o SortGroups(G \ {g})

\* lines 250-252: df_agg, one row per group with the size of the group
Grid(df_map, observed) ==
    LET groups == SortGroups(GridGroups(df_map, observed))
        size(g) == Cardinality({i \in Keyed(df_map) : GridKey(df_map.rows[i]) = g})
    IN  [i \in DOMAIN groups |->
           [LATITUDE |-> groups[i][1], LONGITUDE |-> groups[i][2],
            STATUS |-> groups[i][3], count |-> size(groups[i])]]

SampleWithReplacement(df_map, k, perm) ==
    [rows  |-> [i \in 1..k |-> df_map.rows[perm[1]]],
     index |-> [i \in 1..k |-> perm[1]],
     info  |-> [msg |-> "amostrados", n |-> Len(df_map.rows), m |-> k]]

\* lines 259-261: df_map.sample(n=k, random_state=42) takes the first k places
\* of the order the seeded generator draws for a table of this length
Sample(df_map, k, perm) ==
    [rows  |-> [i \in 1..k |-> df_map.rows[perm[i]]],
     index |-> [i \in 1..k |-> perm[i]],
     info  |-> [msg |-> "amostrados", n |-> Len(df_map.rows), m |-> k]]

PrepareMapPointsStrictlyBelow(df_map, max_points, b) ==
    LET n == Len(df_map.rows)
    IN  IF n < max_points THEN MapCopy(df_map)
        ELSE IF ~GridRaises(df_map)
        THEN LET df_agg == Grid(df_map, b.observed)
             IN  [rows  |-> df_agg,
                  index |-> [i \in DOMAIN df_agg |-> i],
                  info  |-> [msg |-> "reduzidos", n |-> n, m |-> Len(df_agg)]]
        ELSE IF max_points < 0 THEN MapCopy(df_map)
        ELSE Sample(df_map, IF n < max_points THEN n ELSE max_points, b.rng42)

\* lines 238-264: the table and the message prepare_map_points returns under
\* the build b
prepare_map_points(df_map, max_points, b) ==
    LET n == Len(df_map.rows)
    IN  IF n <= max_points THEN MapCopy(df_map)
        ELSE IF ~GridRaises(df_map)
        THEN LET df_agg == Grid(df_map, b.observed)
             IN  [rows  |-> df_agg,
                  index |-> [i \in DOMAIN df_agg |-> i],
                  info  |-> [msg |-> "reduzidos", n |-> n, m |-> Len(df_agg)]]
        ELSE IF max_points < 0 THEN MapCopy(df_map)
        ELSE Sample(df_map, IF n < max_points THEN n ELSE max_points, b.rng42)

(***************************************************************************)
(* Uploaded tables the user may choose                                     *)
(***************************************************************************)
SeqsUpTo(S, n) == UNION {[1..k -> S] : k \in 0..n}

\* a table as a parser returns it: object columns, no categories
MkTable(cols, rows, bad) ==
    [cols  |-> cols,
     rows  |-> [i \in DOMAIN rows |-> [c \in cols |-> rows[i][c]]],
     dtype |-> [c \in cols |-> "object"],
     cats  |-> [c \in cols |-> {}],
     bad   |-> bad]

CsvFile(t) == [suffix |-> ".csv", format |-> "csv", table |-> t]

NormRows ==
    { [MUNICIPIO |-> Str("BELEM"), BAIRRO |-> Str("CENTRO"),
       SITUACAO_HIDROMETRO |-> Str("NORMAL"), QUADRA |-> Num(12),
       TOTAL_DE_MORADORES |-> Num(3), QUANTOS_LITROS_TOTAIS |-> Num(500)],
      [MUNICIPIO |-> NA, BAIRRO |-> Str("CENTRO"),
       SITUACAO_HIDROMETRO |-> NA, QUADRA |-> NA,
       TOTAL_DE_MORADORES |-> NA, QUANTOS_LITROS_TOTAIS |-> NA],
      [MUNICIPIO |-> Str("BELEM"), BAIRRO |-> Str("CENTRO"),
       SITUACAO_HIDROMETRO |-> Str("Quebrado"), QUADRA |-> Str("A"),
       TOTAL_DE_MORADORES |-> Str("abc"), QUANTOS_LITROS_TOTAIS |-> Num(16777217)],
      [MUNICIPIO |-> Str("BELEM"), BAIRRO |-> Str("CENTRO"),
       SITUACAO_HIDROMETRO |-> Str("Outro"), QUADRA |-> Str(SENTINEL),
       TOTAL_DE_MORADORES |-> Str("3"), QUANTOS_LITROS_TOTAIS |-> Num(0)] }

NormOptional == {"SITUACAO_HIDROMETRO", "TOTAL_DE_MORADORES", "QUANTOS_LITROS_TOTAIS"}

\* tables exercising the normalisation: any rows, any of the optional columns
\* absent, at most one column whose conversion raises
NormTables ==
    { MkTable({"MUNICIPIO", "BAIRRO", "QUADRA"} \cup present, rows, bad) :
        present \in SUBSET NormOptional,
        rows \in SeqsUpTo(NormRows, MaxRows),
        bad \in {{}} \cup {{c} : c \in NormOptional \cup {"MUNICIPIO"}} }

\* files whose content the parser chosen from the extension cannot read
UnreadableFiles ==
    { [suffix |-> ".xlsx", format |-> "csv", table |-> EmptyDataFrame],
      [suffix |-> ".CSV", format |-> "garbage", table |-> EmptyDataFrame] }

NormFiles == {CsvFile(t) : t \in {u \in NormTables : u.bad \subseteq u.cols}} \cup UnreadableFiles

FilterRows ==
    { [MUNICIPIO |-> Str(m[1]), BAIRRO |-> Str(m[2]), STATUS |-> st] :
        m \in {<<"BELEM", "CENTRO">>, <<"BELEM", "MARCO">>, <<"ANANINDEUA", "CENTRO">>},
        st \in {NA, Str("COLETADO")} }

\* tables exercising the filters: complete, or lacking one of the three columns
FilterTables ==
    { MkTable({"MUNICIPIO", "BAIRRO", "STATUS"} \ drop, rows, {}) :
        drop \in {{}, {"STATUS"}, {"MUNICIPIO"}, {"BAIRRO"}},
        rows \in SeqsUpTo(FilterRows, MaxRows) }

FilterFiles == {CsvFile(t) : t \in FilterTables}

DupRows ==
    [MUNICIPIO : {Str("BELEM")}, BAIRRO : {Str("CENTRO")},
     MATRICULA : {NA, Num(0), Num(5), Num(7)}]

\* tables exercising the duplicate-identifier KPI
DupTables ==
    { MkTable({"MUNICIPIO", "BAIRRO", "MATRICULA"}, rows, {}) :
        rows \in SeqsUpTo(DupRows, MaxDupRows) }

DupFiles == {CsvFile(t) : t \in DupTables}

ProdRows ==
    { [MUNICIPIO |-> Str("BELEM"), BAIRRO |-> Str("CENTRO"),
       REAMBULADOR |-> r[1], DATA_COLETA |-> r[2], SITUACAO_HIDROMETRO |-> r[3],
       TOTAL_DE_MORADORES |-> r[4], MATRICULA |-> r[5]] :
        r \in { <<Str("BIA"), Str("2024-01-31"), Str("NORMAL"), Num(2), Num(5)>>,
                <<Str("ANA"), Str("2024-02-01"), Str("Outro"), Num(5), Num(5)>>,
                <<Str("BIA"), Str("sem data"), NA, Num(0), Num(0)>>,
                <<NA, Str("2024-01-31"), Str("Quebrado"), NA, Num(7)>>,
                <<Str("nan"), Str("2024-02-01"), Str("NORMAL"), Num(2), NA>>,
                <<Str(""), NA, Str("Outro"), Str("3"), Num(7)>> } }

\* tables exercising the productivity ranking and the KPIs: with collection
\* dates or without the DATA_COLETA column
ProdTables ==
    { MkTable({"MUNICIPIO", "BAIRRO", "REAMBULADOR", "DATA_COLETA", "SITUACAO_HIDROMETRO",
               "TOTAL_DE_MORADORES", "MATRICULA"} \ drop, rows, {}) :
        drop \in {{}, {"DATA_COLETA"}},
        rows \in SeqsUpTo(ProdRows, MaxProdRows) }

ProdFiles == {CsvFile(t) : t \in ProdTables}

DistRows ==
    { [MUNICIPIO |-> Str("BELEM"), BAIRRO |-> Str(r[1]), STATUS |-> r[2], QUADRA |-> r[3]] :
        r \in { <<"CENTRO", Str("VALIDAR"), Str("7.0")>>, <<"CENTRO", Str("COLETAR"), Str("12")>>,
                <<"MARCO", Str("COLETAR"), Str("A")>>,    <<"MARCO", NA, NA>> } }

\* tables exercising the charts of STATUS and QUADRA
DistTables ==
    { MkTable({"MUNICIPIO", "BAIRRO", "STATUS", "QUADRA"}, rows, {}) :
        rows \in SeqsUpTo(DistRows, MaxDistRows) }

DistFiles == {CsvFile(t) : t \in DistTables}

\* files the user uploads one after the other: two .csv files and one .xlsx
\* file, each with one row of its own
UploadFiles ==
    { [suffix |-> f[1], format |-> f[2],
       table |-> MkTable({"MUNICIPIO", "BAIRRO"},
                         <<[MUNICIPIO |-> Str(f[3]), BAIRRO |-> Str("CENTRO")]>>, {})] :
        f \in { <<".csv", "csv", "BELEM">>, <<".csv", "csv", "ANANINDEUA">>,
                <<".xlsx", "excel", "MARITUBA">> } }

MapRows ==
    { [LATITUDE |-> r[1], LONGITUDE |-> r[2], STATUS |-> r[3]] :
        r \in { <<Num(-14512), Num(-484803), Str("COLETADO")>>,
                <<Num(-14514), Num(-484801), Str("COLETADO")>>,
                <<Num(-14512), Num(-484803), Str("VALIDAR")>>,
                <<Num(-14486), Num(-484912), Str("VALIDAR")>>,
                <<NA, Num(-484803), Str("COLETADO")>> } }

\* tables handed to prepare_map_points: as a parser returns them, with one of
\* the three columns absent, or with STATUS as the category column that
\* process_loaded_df makes of it (the categories of the whole loaded table)
MapTable(cols, rows) ==
    [MkTable(cols, rows, {}) EXCEPT
       !.dtype = [c \in cols |-> IF c = "STATUS" THEN "object" ELSE "float64"]]

MapTables ==
    UNION { LET t == MapTable({"LATITUDE", "LONGITUDE", "STATUS"}, rows)
            IN  {t, MapTable({"LONGITUDE", "STATUS"}, rows),
                    MapTable({"LATITUDE", "LONGITUDE"}, rows)}
                \cup {[t EXCEPT !.dtype["STATUS"] = "category", !.cats["STATUS"] = cats] :
                        cats \in {{Str("COLETADO"), Str("VALIDAR")},
                                  {Str("COLETADO"), Str("PENDENTE"), Str("VALIDAR")}}} :
            rows \in SeqsUpTo(MapRows, MaxMapRows) }

\* the builds: groupby keeps to the observed groups of a category key or not
\* (the default of `observed` differs between pandas versions), and the order
\* RandomState(42) draws for a table of n rows
Builds(n) == [observed : BOOLEAN, rng42 : Perms(1..n)]

\* the build does not matter where neither groupby nor sample is called
NoBuild == [observed |-> FALSE, rng42 |-> <<>>]

MapCalls ==
    { [fn |-> "prepare_map_points", df_map |-> t, max_points |-> k] :
        t \in MapTables, k \in 1..MaxPoints }

\* paths handed to load_data and the file found there: any extension over any
\* content
LoadCalls ==
    { [fn |-> "load_data", path |-> [t |-> 0, suffix |-> x],
       files |-> [p \in {[t |-> 0, suffix |-> x]} |->
                    [suffix |-> x, format |-> f, table |-> u.table]]] :
        x \in {".parquet", ".PARQUET", ".csv", ".CSV", ".Csv", ".xlsx", ".XLSX", ".xls", ".txt"},
        f \in {"parquet", "csv", "excel"},
        u \in UploadFiles }

\* rankings handed to the display block: n agents by descending visits, two
\* agents to each number of visits
TopRankings ==
    { [i \in 1..n |-> [Reambulador |-> ToString(i), visitas |-> (n - i) \div 2 + 1]] :
        n \in 1..MaxAgents }

DisplayCalls ==
    { [fn |-> "ranking_display", ranking |-> r,
       horarios |-> IF h THEN [i \in DOMAIN r |-> "00:00 - 00:00"] ELSE <<>>] :
        r \in TopRankings, h \in BOOLEAN }

(***************************************************************************)
(* The script run and the user's actions                                   *)
(***************************************************************************)
AtRest == pc \in {"done", "stopped", "crashed"}

\* the script variables when the session opens
InitScript ==
    /\ uploaded_file = NoFile
    /\ now = 0
    /\ disk = <<>>
    /\ cache = <<>>
    /\ session = EmptySession
    /\ parsed = EmptyDataFrame
    /\ df = EmptyDataFrame
    /\ df_selection = EmptyDataFrame
    /\ selected = [m |-> {}, b |-> {}, s |-> {}]
    /\ kpi = NoKpi
    /\ dist = <<>>
    /\ window = NoWindow
    /\ df_filtrado = EmptyDataFrame
    /\ ranking = <<>>
    /\ metrics = NoMetrics
    /\ msgs = {}
    /\ exc = "none"
    /\ pc = "start"
    /\ pressed = "none"
    /\ duplicadas = <<>>
    /\ display = NoDisplay

\* no function is called on its own while the script runs
Init ==
    /\ InitScript
    /\ call = [fn |-> "none"]
    /\ ret = <<>>
    /\ build = NoBuild

\* a script run starts with fresh script variables
StartRun ==
    /\ parsed' = EmptyDataFrame
    /\ df' = EmptyDataFrame
    /\ df_selection' = EmptyDataFrame
    /\ selected' = [m |-> {}, b |-> {}, s |-> {}]
    /\ kpi' = NoKpi
    /\ dist' = <<>>
    /\ window' = NoWindow
    /\ df_filtrado' = EmptyDataFrame
    /\ ranking' = <<>>
    /\ metrics' = NoMetrics
    /\ msgs' = {}
    /\ exc' = "none"
    /\ pc' = "start"
    /\ duplicadas' = <<>>
    /\ display' = NoDisplay
    /\ UNCHANGED alone

\* the user puts a file into the empty uploader; the script reruns
UploadFile(files) ==
    /\ AtRest
    /\ uploaded_file = NoFile
    /\ uploaded_file' \in files
    /\ pressed' = "none"
    /\ StartRun
    /\ UNCHANGED <<now, disk, cache, session>>

\* the user puts another file into the uploader; the script reruns
ReplaceFile(files) ==
    /\ AtRest
    /\ uploaded_file # NoFile
    /\ uploaded_file' \in files \ {uploaded_file}
    /\ pressed' = "none"
    /\ StartRun
    /\ UNCHANGED <<now, disk, cache, session>>

\* a second passes on the clock read by time.time()
Tick ==
    /\ now < MaxTime
    /\ now' = now + 1
    /\ UNCHANGED <<uploaded_file, disk, cache, session, parsed, df, df_selection, selected,
                   kpi, dist, window, df_filtrado, ranking, metrics, msgs, exc, pc,
                   pressed, duplicadas, display, alone>>

\* the buttons the last run put on the screen (lines 707-713, 736-742, 763-769)
ButtonsShown ==
    IF pc # "done" THEN {}
    ELSE {"todos_mun", "limpar_mun", "todos_bairro", "limpar_bairro"}
         \cup (IF "STATUS" \in df.cols THEN {"todos_status", "limpar_status"} ELSE {})

\* the user touches a widget or clicks one of the buttons; the script reruns
Interact ==
    /\ AtRest
    /\ pressed' \in {"none"} \cup ButtonsShown
    /\ StartRun
    /\ UNCHANGED <<uploaded_file, now, disk, cache, session>>

StoreUploadFlagsFailure(ss, saved, tmp_src) ==
    IF saved
    THEN [ss EXCEPT !.uploaded_path = tmp_src, !.file_uploaded = TRUE]
    ELSE [ss EXCEPT !.file_uploaded = TRUE]

\* lines 213-219: the session after the upload block; the two assignments are
\* skipped when _save_uploaded_file raised
StoreUpload(ss, saved, tmp_src) ==
    IF saved
    THEN [ss EXCEPT !.uploaded_path = tmp_src, !.file_uploaded = TRUE]
    ELSE ss

\* lines 210-233: save the uploaded file, then load the table of the session's
\* path through the cache of load_data
RunLoad ==
    /\ pc = "start"
    /\ \E saveFails \in BOOLEAN :
        LET saved == uploaded_file # NoFile /\ ~saveFails
            tmp_src == TmpPath(uploaded_file, now)
            disk1 == IF saved
                     THEN [p \in DOMAIN disk \cup {tmp_src} |->
                             IF p = tmp_src THEN uploaded_file ELSE disk[p]]
                     ELSE disk
            ss1 == StoreUpload(session, saved, tmp_src)
            m1 == IF saved THEN {"Carregado"}
                  ELSE IF uploaded_file # NoFile THEN {"Erro: salvar"} ELSE {}
            data_path == ss1.uploaded_path
            hit == data_path \in DOMAIN cache
            res == IF hit THEN cache[data_path] ELSE load_data(data_path, disk1)
        IN  /\ disk' = disk1
            /\ parsed' = IF data_path # NoPath /\ ~hit /\ ~res.raised /\ ~res.error
                         THEN InPlace(disk1[data_path].table) ELSE parsed
            /\ IF data_path = NoPath
               THEN /\ df' = EmptyDataFrame
                    /\ msgs' = m1 \cup {"Faça upload da planilha"}
                    /\ UNCHANGED cache
                    /\ session' = ss1
                    /\ pc' = "loaded"
                    /\ UNCHANGED exc
               ELSE IF res.raised
               THEN /\ df' = EmptyDataFrame
                    /\ msgs' = m1
                    /\ UNCHANGED cache
                    /\ session' = ss1
                    /\ pc' = "crashed"
                    /\ exc' = "Exception"
               ELSE /\ df' = res.df
                    /\ msgs' = m1 \cup (IF res.error THEN {"Erro ao carregar dados"} ELSE {})
                                  \cup (IF ss1.file_uploaded THEN {"Processando dados..."} ELSE {})
                    /\ cache' = [p \in DOMAIN cache \cup {data_path} |->
                                   IF p = data_path THEN res ELSE cache[p]]
                    /\ session' = [ss1 EXCEPT !.file_uploaded = FALSE]
                    /\ pc' = "loaded"
                    /\ UNCHANGED exc
    /\ UNCHANGED <<uploaded_file, now, df_selection, selected, kpi,
                   dist, window, df_filtrado, ranking, metrics,
                   pressed, duplicadas, display, alone>>

FilterCells(t, c) == IF c \in t.cols THEN ColumnValues(t, c) ELSE {}

\* lines 702-789: the sidebar filters and df_selection
RunFilters ==
    /\ pc = "loaded"
    /\ IF IsEmpty(df)
       THEN /\ msgs' = msgs \cup {"Não foi possível carregar os dados."}
            /\ pc' = "stopped"
            /\ UNCHANGED <<session, df_selection, selected, exc>>
       ELSE \E pickM \in SUBSET FilterCells(df, "MUNICIPIO"),
               pickB \in SUBSET FilterCells(df, "BAIRRO"),
               pickS \in SUBSET {v \in FilterCells(df, "STATUS") : ~IsNA(v)} :
              LET r == Sidebar(df, session, pressed, pickM, pickB, pickS)
              IN  /\ {"MUNICIPIO", "BAIRRO"} \subseteq df.cols =>
                        pickB \subseteq {df.rows[i]["BAIRRO"] : i \in
                                            {j \in DOMAIN df.rows :
                                               df.rows[j]["MUNICIPIO"] \in pickM}}
                  /\ session' = r.session
                  /\ df_selection' = r.sel
                  /\ selected' = r.used
                  /\ exc' = r.exc
                  /\ pc' = IF r.exc = "none" THEN "filtered" ELSE "crashed"
                  /\ UNCHANGED msgs
    /\ pressed' = "none"
    /\ UNCHANGED <<uploaded_file, now, disk, cache, parsed, df, kpi,
                   dist, window, df_filtrado, ranking, metrics,
                   duplicadas, display, alone>>

\* lines 795-855: the KPI metrics over df_selection and the report of the
\* duplicated identifiers
RunKpis ==
    /\ pc = "filtered"
    /\ IF MoradoresRaises(df_selection)
       THEN /\ exc' = "TypeError"
            /\ pc' = "crashed"
            /\ UNCHANGED <<kpi, duplicadas>>
       ELSE /\ kpi' = Kpis(df_selection)
            /\ IF "MATRICULA" \in df_selection.cols
               THEN duplicadas' \in DuplicadasCompleto(df_selection)
               ELSE UNCHANGED duplicadas
            /\ pc' = "kpis"
            /\ UNCHANGED exc
    /\ UNCHANGED <<uploaded_file, now, disk, cache, session, parsed, df, df_selection,
                   selected, dist, window, df_filtrado, ranking, metrics, msgs,
                   pressed, display, alone>>

\* lines 983-1425: the charts over df_selection
RunCharts ==
    /\ pc = "kpis"
    /\ dist' \in Distributions(df_selection)
    /\ pc' = "charts"
    /\ UNCHANGED <<uploaded_file, now, disk, cache, session, parsed, df, df_selection,
                   selected, kpi, window, df_filtrado, ranking, metrics, msgs, exc,
                   pressed, duplicadas, display, alone>>

\* lines 1433-1693: the productivity window, the ranking and its metrics
RunProductivity ==
    /\ pc = "charts"
    /\ \E tipo_filtro \in TipoFiltro :
         \E w \in WindowChoices(df_selection, tipo_filtro) :
           \E r \in Rankings(Filtrado(df_selection, w)) :
              /\ window' = w
              /\ df_filtrado' = Filtrado(df_selection, w)
              /\ ranking' = r
              /\ metrics' = Metrics(r)
              /\ display' = IF r = <<>> THEN NoDisplay
                             ELSE Display(r, Horarios(Filtrado(df_selection, w), r))
              /\ msgs' = msgs \cup WindowMsgs(df_selection, w)
                               \cup RankingMsgs(Filtrado(df_selection, w), r)
    /\ pc' = "done"
    /\ UNCHANGED <<uploaded_file, now, disk, cache, session, parsed, df, df_selection,
                   selected, kpi, dist, exc, pressed, duplicadas, alone>>

\* the steps of one script run
Run == RunLoad \/ RunFilters \/ RunKpis \/ RunCharts \/ RunProductivity

\* prepare_map_points is called with the arguments drawn at the start
InitMap ==
    /\ InitScript
    /\ call \in MapCalls
    /\ ret = <<>>
    /\ build \in Builds(Len(call.df_map.rows))

CallPrepareMapPoints ==
    /\ call.fn = "prepare_map_points"
    /\ Len(ret) < MaxCalls
    /\ ret' = Append(ret, prepare_map_points(call.df_map, call.max_points, build))
    /\ UNCHANGED <<script, call, build>>

NextMap == CallPrepareMapPoints
SpecMap == InitMap /\ [][NextMap]_vars

\* load_data is called with the arguments drawn at the start
InitLoad ==
    /\ InitScript
    /\ call \in LoadCalls
    /\ ret = <<>>
    /\ build = NoBuild

CallLoadData ==
    /\ call.fn = "load_data"
    /\ Len(ret) < MaxCalls
    /\ ret' = Append(ret, load_data(call.path, call.files))
    /\ UNCHANGED <<script, call, build>>

NextLoad == CallLoadData
SpecLoad == InitLoad /\ [][NextLoad]_vars

\* the display block of the ranking runs on the ranking drawn at the start
InitDisplay ==
    /\ InitScript
    /\ call \in DisplayCalls
    /\ ret = <<>>
    /\ build = NoBuild

CallDisplay ==
    /\ call.fn = "ranking_display"
    /\ Len(ret) < MaxCalls
    /\ ret' = Append(ret, Display(call.ranking, call.horarios))
    /\ UNCHANGED <<script, call, build>>

NextDisplay == CallDisplay
SpecDisplay == InitDisplay /\ [][NextDisplay]_vars

NextNorm == UploadFile(NormFiles) \/ Interact \/ Run
SpecNorm == Init /\ [][NextNorm]_vars

NextFilter == UploadFile(FilterFiles) \/ Interact \/ Run
SpecFilter == Init /\ [][NextFilter]_vars

NextDup == UploadFile(DupFiles) \/ Interact \/ Run
SpecDup == Init /\ [][NextDup]_vars

NextProd == UploadFile(ProdFiles) \/ Interact \/ Run
SpecProd == Init /\ [][NextProd]_vars

NextDist == UploadFile(DistFiles) \/ Interact \/ Run
SpecDist == Init /\ [][NextDist]_vars

NextUpload ==
    UploadFile(UploadFiles) \/ ReplaceFile(UploadFiles) \/ Tick \/ Interact \/ Run
SpecUpload == Init /\ [][NextUpload]_vars

\* one file is uploaded and stays in the uploader while the user acts and the
\* clock advances
NextRerun == UploadFile(UploadFiles) \/ Tick \/ Interact \/ Run
SpecRerun == Init /\ [][NextRerun]_vars

\* files are uploaded one after the other within the same second
NextSave == UploadFile(UploadFiles) \/ ReplaceFile(UploadFiles) \/ Interact \/ Run
SpecSave == Init /\ [][NextSave]_vars

Next == UploadFile(NormFiles \cup FilterFiles \cup DupFiles \cup ProdFiles) \/ Interact \/ Run
Spec == Init /\ [][Next]_vars

(***************************************************************************)
(* Properties                                                              *)
(***************************************************************************)
\* the table the parser handed to process_loaded_df in this run
raw == uploaded_file.table

\* this run loaded the uploaded file without a reading error
LoadedOk ==
    /\ pc # "start"
    /\ session.uploaded_path # NoPath
    /\ "Erro ao carregar dados" \notin msgs
    /\ exc # "Exception"

Count(rows, r) == Cardinality({i \in DOMAIN rows : rows[i] = r})
Range(rows) == {rows[i] : i \in DOMAIN rows}

\* the condition the filters put on a row
Chosen(r) ==
    /\ r["MUNICIPIO"] \in selected.m
    /\ r["BAIRRO"] \in selected.b
    /\ "STATUS" \in df.cols => r["STATUS"] \in selected.s

\* C1: once the filters have run, df_selection holds exactly the rows of df
\* whose MUNICIPIO is selected and whose BAIRRO is selected and, when df has a
\* STATUS column, whose STATUS is selected: each such row as often as in df,
\* no other row at all.
C1_SelectionExact ==
    pc \in {"filtered", "done"} =>
        /\ df_selection.cols = df.cols
        /\ \A r \in Range(df.rows) \cup Range(df_selection.rows) :
              Count(df_selection.rows, r) = IF Chosen(r) THEN Count(df.rows, r) ELSE 0

\* a run that kept some rows and dropped others, with a STATUS column
C1_Witness ==
    /\ pc = "filtered"
    /\ "STATUS" \in df.cols
    /\ Len(df_selection.rows) > 0
    /\ \E i \in DOMAIN df.rows :
          /\ df.rows[i]["MUNICIPIO"] \in selected.m
          /\ df.rows[i]["BAIRRO"] \in selected.b
          /\ df.rows[i]["STATUS"] \notin selected.s

\* C2: an empty selection in any one filter (the status filter counting only
\* when df has a STATUS column) gives an empty df_selection.
C2_EmptySelectionEmptySubset ==
    (/\ pc \in {"filtered", "done"}
     /\ \/ selected.m = {}
        \/ selected.b = {}
        \/ ("STATUS" \in df.cols /\ selected.s = {}))
    => df_selection.rows = <<>>

\* only the status selection is empty, and a row passes the two other filters
C2_Witness ==
    /\ pc = "filtered"
    /\ "STATUS" \in df.cols
    /\ selected.s = {}
    /\ \E i \in DOMAIN df.rows :
          /\ df.rows[i]["MUNICIPIO"] \in selected.m
          /\ df.rows[i]["BAIRRO"] \in selected.b
          /\ ~IsNA(df.rows[i]["STATUS"])
    /\ df_selection.rows = <<>>

\* the MATRICULA values of df_selection, in row order
Matriculas == [i \in DOMAIN df_selection.rows |-> df_selection.rows[i]["MATRICULA"]]

\* C3: the duplicate KPI is the number of extra occurrences of identifiers
\* other than zero: each row whose MATRICULA is a non-zero value already seen
\* in an earlier row counts once, so a value occurring k > 1 times gives k - 1.
C3_DuplicateCount ==
    (pc = "done" /\ "MATRICULA" \in df_selection.cols) =>
        kpi.matriculas_duplicadas =
            Cardinality({i \in DOMAIN Matriculas :
                           /\ Matriculas[i].k = "num"
                           /\ Matriculas[i].n # 0
                           /\ \E j \in 1..(i - 1) : Matriculas[j] = Matriculas[i]})

\* identifiers 5, 5, 5 and 0, 0: the KPI is 2
C3_Witness ==
    /\ pc = "done"
    /\ "MATRICULA" \in df_selection.cols
    /\ Cardinality({i \in DOMAIN Matriculas : Matriculas[i] = Num(5)}) = 3
    /\ Cardinality({i \in DOMAIN Matriculas : Matriculas[i] = Num(0)}) = 2
    /\ kpi.matriculas_duplicadas = 2

\* C4: after normalisation of a table with a SITUACAO_HIDROMETRO column, every
\* row's POSSUI_HIDROMETRO is SIM exactly when the row's meter status, as
\* uploaded and uppercased, is NORMAL, QUEBRADO or INSTALADO, and is NÃO for
\* any other value and for a missing one.
C4_PossuiHidrometroRule ==
    (LoadedOk /\ "SITUACAO_HIDROMETRO" \in raw.cols) =>
        /\ "POSSUI_HIDROMETRO" \in df.cols
        /\ Len(df.rows) = Len(raw.rows)
        /\ \A i \in DOMAIN raw.rows :
              LET x == raw.rows[i]["SITUACAO_HIDROMETRO"]
                  sim == x.k # "na" /\ Upper(PyStr(x)) \in {"NORMAL", "QUEBRADO", "INSTALADO"}
              IN  df.rows[i]["POSSUI_HIDROMETRO"] = IF sim THEN Str("SIM") ELSE Str("NÃO")

\* a mixed-case status classified SIM next to a missing one classified NÃO
C4_Witness ==
    /\ LoadedOk
    /\ "SITUACAO_HIDROMETRO" \in raw.cols
    /\ \E i, j \in DOMAIN raw.rows :
          /\ raw.rows[i]["SITUACAO_HIDROMETRO"] = Str("Quebrado")
          /\ df.rows[i]["POSSUI_HIDROMETRO"] = Str("SIM")
          /\ IsNA(raw.rows[j]["SITUACAO_HIDROMETRO"])
          /\ df.rows[j]["POSSUI_HIDROMETRO"] = Str("NÃO")

TextColumns == {c \in DOMAIN EXPECTED_COLUMNS : EXPECTED_COLUMNS[c] = "string"}
NumericColumns == {c \in DOMAIN EXPECTED_COLUMNS : EXPECTED_COLUMNS[c] = "float64"}

C6_NoMissingText ==
    LoadedOk =>
        \A c \in TextColumns \cap raw.cols : \A i \in DOMAIN raw.rows :
            LET x == raw.rows[i][c]
            IN  df.rows[i][c] = IF x.k = "na" THEN Str(SENTINEL) ELSE Str(PyStr(x))

\* C7: in the normalised table, when no conversion raises, a numeric canonical
\* column holds 0 where the input was missing or unparseable and the parsed
\* value elsewhere.
C7_NumericValuesKept ==
    (LoadedOk /\ raw.bad = {}) =>
        \A c \in NumericColumns \cap raw.cols : \A i \in DOMAIN raw.rows :
            LET x == ToNumeric(raw.rows[i][c])
            IN  df.rows[i][c] = IF x.k = "na" THEN Num(0) ELSE x

\* C8: load_data never raises; when the file cannot be read by the parser of
\* its extension the run shows the loading error and gets an empty table.
C8_LoadDataNeverRaises ==
    /\ exc # "Exception"
    /\ (/\ pc # "start"
        /\ session.uploaded_path \in DOMAIN disk
        /\ ParserFor(session.uploaded_path) # disk[session.uploaded_path].format)
       => (IsEmpty(df) /\ "Erro ao carregar dados" \in msgs)

\* an unreadable upload: error shown, no table, the run stopped without raising
C8_Witness ==
    /\ pc = "stopped"
    /\ uploaded_file \in UnreadableFiles
    /\ session.uploaded_path \in DOMAIN disk
    /\ "Erro ao carregar dados" \in msgs
    /\ IsEmpty(df)
    /\ exc = "none"

\* C9: when the conversion of one canonical column raises, that column keeps
\* its input values and every other canonical column is as after a
\* normalisation in which nothing raised.
C9_FailureIsolated ==
    (LoadedOk /\ raw.bad # {}) =>
        LET ref == process_loaded_df([raw EXCEPT !.bad = {}])
        IN  \A c \in DOMAIN EXPECTED_COLUMNS \cap df.cols : \A i \in DOMAIN raw.rows :
                df.rows[i][c] = IF c \in raw.bad THEN raw.rows[i][c] ELSE ref.rows[i][c]

\* C10: a run over a non-empty table never ends with the KeyError of a
\* missing column.
C10_NoKeyError == ~(pc = "crashed" /\ exc = "KeyError")

\* a run whose filters kept no row of a table that has rows
EmptySubset == df_selection.cols # {} /\ Len(df_selection.rows) = 0 /\ Len(df.rows) > 0

\* C11: when the filters keep no row of a non-empty table, no step of the run
\* raises, the KPIs are total 0, meter percentage 0 (a number, not NaN), mean
\* residents 0 (a number, not NaN) and duplicates 0, and the productivity
\* section ends with no row, no ranking and zero metrics.
C11_EmptySubsetZeroKpis ==
    EmptySubset =>
        /\ pc # "crashed" /\ exc = "none"
        /\ pc \in {"kpis", "charts", "done"} =>
              /\ kpi.total_clientes = 0
              /\ kpi.perc_hidrometro.num = 0 /\ kpi.perc_hidrometro.den # 0
              /\ kpi.media_moradores.num = 0 /\ kpi.media_moradores.den # 0
              /\ kpi.matriculas_duplicadas = 0
        /\ pc \in {"charts", "done"} => dist = <<>>
        /\ pc = "done" =>
              /\ Len(df_filtrado.rows) = 0
              /\ ranking = <<>>
              /\ metrics = NoMetrics

\* a finished run over an empty subset of a table with meter, resident,
\* identifier and date columns, the window being a period
C11_Witness ==
    /\ EmptySubset
    /\ pc = "done"
    /\ {"POSSUI_HIDROMETRO", "TOTAL_DE_MORADORES", "MATRICULA", "DATA_COLETA"}
          \subseteq df_selection.cols
    /\ window.tipo = "Por Período"
    /\ kpi.perc_hidrometro = Zero

\* C12: in a run that saved the file held by the uploader, and in every later
\* run that saves it again, the table of the run is the table parsed from that
\* file, whatever was uploaded before and whenever.
C12_LatestUploadUsed ==
    (/\ pc # "start"
     /\ "Carregado" \in msgs
     /\ ParserFor(session.uploaded_path) = uploaded_file.format)
    => df = process_loaded_df(uploaded_file.table)

\* C13: normalising the table process_loaded_df returned gives a table with
\* the same columns and the same value in every cell, POSSUI_HIDROMETRO
\* included.
C13_NormalizeTwice ==
    LoadedOk =>
        /\ process_loaded_df(df).cols = df.cols
        /\ process_loaded_df(df).rows = df.rows

\* a normalised table that differs from its input, with a categorical text
\* column, a filled-in missing text and a meter classified SIM
C13_Witness ==
    /\ LoadedOk
    /\ df.rows # raw.rows
    /\ df.dtype["MUNICIPIO"] = "category"
    /\ "POSSUI_HIDROMETRO" \in df.cols
    /\ \E i, j \in DOMAIN df.rows :
          /\ df.rows[i]["POSSUI_HIDROMETRO"] = Str("SIM")
          /\ IsNA(raw.rows[j]["MUNICIPIO"]) /\ df.rows[j]["MUNICIPIO"] = Str(SENTINEL)
    /\ process_loaded_df(df).rows = df.rows

\* C14: after process_loaded_df returned, the table object the parser passed
\* to it has the columns and the values the parser gave it.
C14_ArgumentUnchanged ==
    (LoadedOk /\ parsed # EmptyDataFrame) =>
        /\ parsed.cols = raw.cols
        /\ parsed.rows = raw.rows

\* the first row of the window that carries the agent name x
FirstVisit(x) ==
    Min({i \in DOMAIN df_filtrado.rows :
           /\ ~IsNA(df_filtrado.rows[i]["REAMBULADOR"])
           /\ PyStr(df_filtrado.rows[i]["REAMBULADOR"]) = x})

\* C15: the ranking lists the agents by descending visit count, and agents
\* with the same count in the order of their first row in the window.
C15_TiesInFirstSeenOrder ==
    pc = "done" =>
        \A i, j \in DOMAIN ranking :
            i < j =>
                \/ ranking[i].visitas > ranking[j].visitas
                \/ /\ ranking[i].visitas = ranking[j].visitas
                   /\ FirstVisit(ranking[i].Reambulador) < FirstVisit(ranking[j].Reambulador)

\* the collection date of row i of df_selection (NA when it has none)
ColetaDate(i) ==
    IF "DATA_COLETA" \in df_selection.cols
    THEN ToDatetime(df_selection.rows[i]["DATA_COLETA"]) ELSE NA

\* the date d lies in the window chosen in this run
InWindow(d) ==
    \/ window.tipo = "Hoje" /\ d = window.hoje
    \/ window.tipo = "Por Período" /\ window.data_inicio <= d /\ d <= window.data_fim
    \/ window.tipo = "Por Mês" /\ d \div 100 = window.mes_selecionado

WindowRows ==
    {i \in DOMAIN df_selection.rows : ~IsNA(ColetaDate(i)) /\ InWindow(ColetaDate(i).n)}

\* rows without their collection date and month
Undated(rows) ==
    [i \in DOMAIN rows |->
       [c \in df_selection.cols \ {"DATA_COLETA"} |-> rows[i][c]]]

\* C16 as stated: the rows of the ranking are exactly the rows of df_selection
\* whose collection date is in the window; a row with a date outside it or
\* with no parseable date is never among them.
C16_OnlyWindowRows ==
    pc = "done" =>
        Undated(df_filtrado.rows) = Undated(RowsAt(df_selection.rows, WindowRows, 1))

\* no date to filter by: no DATA_COLETA column, or a period or month window
\* over rows none of which has a parseable date
NoDateToFilter ==
    \/ "DATA_COLETA" \notin df_selection.cols
    \/ /\ window.tipo \in {"Por Período", "Por Mês"}
       /\ \A i \in DOMAIN df_selection.rows : IsNA(ColetaDate(i))

\* C16 amended: the rows of the ranking are exactly the rows of df_selection
\* whose collection date is in the window (both ends of a period included),
\* except when there is no date to filter by: then every row of df_selection
\* is among them.
C16_WindowRowsOrAll ==
    pc = "done" =>
        Undated(df_filtrado.rows) =
            IF NoDateToFilter THEN Undated(df_selection.rows)
            ELSE Undated(RowsAt(df_selection.rows, WindowRows, 1))

\* a period of the single day 2024-01-31 over three rows: the row of that
\* day is kept, the row of the next day and the row without a date are not
C16_Witness ==
    /\ pc = "done"
    /\ window.tipo = "Por Período"
    /\ window.data_inicio = 20240131 /\ window.data_fim = 20240131
    /\ Len(df_selection.rows) = 3
    /\ WindowRows = {1}
    /\ ColetaDate(2) = Num(20240201)
    /\ IsNA(ColetaDate(3))
    /\ Len(df_filtrado.rows) = 1

\* the rows of the window whose agent name, as text, is x
VisitsOf(x) ==
    IF "REAMBULADOR" \in df_filtrado.cols
    THEN {i \in DOMAIN df_filtrado.rows :
            /\ ~IsNA(df_filtrado.rows[i]["REAMBULADOR"])
            /\ PyStr(df_filtrado.rows[i]["REAMBULADOR"]) = x}
    ELSE {}

\* the agent names of the window: present, not empty and not 'nan'
AgentNames ==
    IF "REAMBULADOR" \in df_filtrado.cols
    THEN {PyStr(v) : v \in {w \in ColumnValues(df_filtrado, "REAMBULADOR") : ~IsNA(w)}}
            \ {"", "nan"}
    ELSE {}

\* C17: the ranking has one entry for each agent name of the window that is
\* present, not empty and not 'nan', no other entry, and the count of an entry
\* is the number of window rows with that name.
C17_RankedAgents ==
    pc = "done" =>
        /\ {ranking[i].Reambulador : i \in DOMAIN ranking} = AgentNames
        /\ Len(ranking) = Cardinality(AgentNames)
        /\ \A i \in DOMAIN ranking :
              ranking[i].visitas = Cardinality(VisitsOf(ranking[i].Reambulador))

\* a window with a BIA row, a 'nan' row and a row without a name: only BIA
\* is ranked, with one visit
C17_Witness ==
    /\ pc = "done"
    /\ Len(df_filtrado.rows) = 3
    /\ ColumnValues(df_filtrado, "REAMBULADOR") = {Str("BIA"), Str("nan"), NA}
    /\ ranking = <<[Reambulador |-> "BIA", visitas |-> 1]>>

\* some agent of the ranking with the most visits
MaxVisitas == Max({ranking[i].visitas : i \in DOMAIN ranking})

\* C18: for a non-empty ranking the agent total is the number of ranked
\* agents, the visit total is the sum of their counts, the mean is that sum
\* over that number, and the best performance is the largest count.
C18_MetricsAgree ==
    (pc = "done" /\ ranking # <<>>) =>
        /\ metrics.reambuladores = Len(ranking)
        /\ metrics.visitas = Cardinality(UNION {VisitsOf(x) : x \in AgentNames})
        /\ metrics.media_visitas.num = metrics.visitas
        /\ metrics.media_visitas.den = Len(ranking)
        /\ metrics.melhor = MaxVisitas

\* two ranked agents with different counts
C18_Witness ==
    /\ pc = "done"
    /\ Len(ranking) = 2
    /\ ranking[1].visitas = 2 /\ ranking[2].visitas = 1
    /\ metrics = [reambuladores |-> 2, visitas |-> 3,
                  media_visitas |-> Ratio(3, 2), melhor |-> 2]

\* the value a chart shows for a cell of its column
Shown(c, v) == IF c = "QUADRA" THEN QuadraLabel(v) ELSE v

\* the rows of df_selection a chart of column c shows under the value x
RowsShownAs(c, x) ==
    {i \in DOMAIN df_selection.rows :
       /\ ~IsNA(df_selection.rows[i][c])
       /\ Shown(c, df_selection.rows[i][c]) = x}

\* C19: every distribution charted has one entry for each distinct value of
\* its column in df_selection, with the number of rows of that value, the
\* entries by descending count and those of equal count in the order of their
\* first row.
C19_DistributionByCount ==
    pc \in {"charts", "done"} =>
        \A c \in DOMAIN dist :
            /\ \A i \in DOMAIN dist[c] :
                  /\ RowsShownAs(c, dist[c][i].value) # {}
                  /\ dist[c][i].count = Cardinality(RowsShownAs(c, dist[c][i].value))
            /\ \A i, j \in DOMAIN dist[c] :
                  i < j =>
                    \/ dist[c][i].count > dist[c][j].count
                    \/ /\ dist[c][i].count = dist[c][j].count
                       /\ Min(RowsShownAs(c, dist[c][i].value))
                            < Min(RowsShownAs(c, dist[c][j].value))

\* the rows of df_selection with a resident count of 1 or more
Habitadas ==
    IF "TOTAL_DE_MORADORES" \in df_selection.cols
    THEN {i \in DOMAIN df_selection.rows :
            /\ df_selection.rows[i]["TOTAL_DE_MORADORES"].k = "num"
            /\ df_selection.rows[i]["TOTAL_DE_MORADORES"].n >= 1}
    ELSE {}

\* C20: the mean-residents KPI is the sum of TOTAL_DE_MORADORES over the rows
\* of df_selection with a count of 1 or more, divided by the number of those
\* rows; it is 0 when there is no such row or no such column.
C20_MeanOverInhabited ==
    pc \in {"kpis", "charts", "done"} =>
        IF Habitadas = {} THEN kpi.media_moradores = Zero
        ELSE /\ kpi.media_moradores.den = Cardinality(Habitadas)
             /\ kpi.media_moradores.num =
                    SumF([i \in Habitadas |-> df_selection.rows[i]["TOTAL_DE_MORADORES"].n])

\* resident counts 2, 5 and 0: the mean is 7 / 2
C20_Witness ==
    /\ pc = "kpis"
    /\ Len(df_selection.rows) = 3
    /\ {df_selection.rows[i]["TOTAL_DE_MORADORES"] : i \in DOMAIN df_selection.rows}
          = {Num(2), Num(5), Num(0)}
    /\ kpi.media_moradores = Ratio(7, 2)


(***************************************************************************)
(* prepare_map_points                                                      *)
(***************************************************************************)
MapCalled == call.fn = "prepare_map_points" /\ ret # <<>>

\* C22: prepare_map_points called with a table of at most max_points rows
\* returns the rows of its input, each with its values and at its place, and
\* no message.
C22_SmallTableCopied ==
    (MapCalled /\ Len(call.df_map.rows) <= call.max_points) =>
        \A k \in DOMAIN ret :
            /\ ret[k].rows = call.df_map.rows
            /\ ret[k].index = [i \in DOMAIN call.df_map.rows |-> i]
            /\ ret[k].info.msg = "none"

\* a table of exactly max_points rows with all three columns was handed over
\* and came back whole
C22_Witness ==
    /\ MapCalled
    /\ Len(call.df_map.rows) = call.max_points
    /\ call.max_points = MaxPoints
    /\ ~GridRaises(call.df_map)
    /\ ret[1].rows = call.df_map.rows
    /\ ret[1].info = NoInfo

\* the (rounded latitude, rounded longitude, status) triple of an input row
Cell(i) ==
    LET row == call.df_map.rows[i]
    IN  <<Round3(row["LATITUDE"].n), Round3(row["LONGITUDE"].n), row["STATUS"].s>>

\* every row of the input has a latitude, a longitude and a status
AllLocated ==
    /\ {"LATITUDE", "LONGITUDE", "STATUS"} \subseteq call.df_map.cols
    /\ \A i \in DOMAIN call.df_map.rows :
          \A c \in {"LATITUDE", "LONGITUDE", "STATUS"} : ~IsNA(call.df_map.rows[i][c])

RECURSIVE SumCounts(_)
SumCounts(rows) == IF rows = <<>> THEN 0 ELSE Head(rows).count + SumCounts(Tail(rows))

\* C23: prepare_map_points called with more than max_points rows that all have
\* LATITUDE, LONGITUDE and STATUS returns exactly one row per distinct
\* (rounded latitude, rounded longitude, status) triple of the input, carrying
\* the number of input rows of the triple; the counts sum to the number of
\* input rows and the output has no more rows than the input.
C23_OneRowPerCell ==
    (MapCalled /\ AllLocated /\ Len(call.df_map.rows) > call.max_points) =>
        \A k \in DOMAIN ret :
            LET out == ret[k].rows
                n == Len(call.df_map.rows)
                OutCell(j) == <<out[j].LATITUDE.n, out[j].LONGITUDE.n, out[j].STATUS.s>>
            IN  /\ {OutCell(j) : j \in DOMAIN out} = {Cell(i) : i \in 1..n}
                /\ \A j1, j2 \in DOMAIN out : OutCell(j1) = OutCell(j2) => j1 = j2
                /\ \A j \in DOMAIN out :
                      out[j].count = Cardinality({i \in 1..n : Cell(i) = OutCell(j)})
                /\ SumCounts(out) = n
                /\ Len(out) <= n

\* C24: when the grid grouping fails because LATITUDE, LONGITUDE or STATUS is
\* absent, on a table with more than max_points rows, prepare_map_points
\* returns exactly max_points rows, each a row of the input and none taken
\* twice, and every call on the same input returns the same rows.
C24_FallbackSample ==
    (MapCalled /\ GridRaises(call.df_map) /\ Len(call.df_map.rows) > call.max_points) =>
        \A k \in DOMAIN ret :
            LET out == ret[k]
            IN  /\ Len(out.rows) = call.max_points
                /\ DOMAIN out.index = DOMAIN out.rows
                /\ \A i \in DOMAIN out.rows :
                      /\ out.index[i] \in DOMAIN call.df_map.rows
                      /\ out.rows[i] = call.df_map.rows[out.index[i]]
                /\ \A i, j \in DOMAIN out.index : out.index[i] = out.index[j] => i = j
                /\ out = ret[1]

\* a table of three rows without the LATITUDE column was sampled twice down
\* to two rows, and the sample is not the head of the table
C24_Witness ==
    /\ MapCalled
    /\ "LATITUDE" \notin call.df_map.cols
    /\ Len(call.df_map.rows) = 3
    /\ call.max_points = 2
    /\ Len(ret) = 2
    /\ ret[1] = ret[2]
    /\ ret[1].index # <<1, 2>>
    /\ ret[1].info.msg = "amostrados"

(***************************************************************************)
(* load_data                                                               *)
(***************************************************************************)
LoadCalled == call.fn = "load_data" /\ ret # <<>>

\* C21: load_data chooses the parser from the extension of the path alone,
\* whatever its case and whatever the file holds: .parquet the parquet reader,
\* .csv the CSV reader, any other extension the spreadsheet reader.
C21_ParserByExtension ==
    LoadCalled =>
        \A k \in DOMAIN ret :
            ret[k].parser =
                IF call.path.suffix \in {".parquet", ".PARQUET"} THEN "parquet"
                ELSE IF call.path.suffix \in {".csv", ".CSV", ".Csv"} THEN "csv"
                ELSE "excel"

\* a parquet file under an upper-case extension was read by the parquet reader
C21_Witness ==
    /\ LoadCalled
    /\ call.path.suffix = ".PARQUET"
    /\ call.files[call.path].format = "parquet"
    /\ ret[1].parser = "parquet"
    /\ ~ret[1].error
    /\ ~IsEmpty(ret[1].df)

(***************************************************************************)
(* The ranking table and its export                                        *)
(***************************************************************************)
\* the export d.csv holds every agent of the ranking r with its visits, in the
\* order of r, and the table d.tabela shows the first agents of r, at most
\* max_show, numbered 1, 2, 3, ...
ExportAgrees(r, d) ==
    /\ Len(d.csv) = Len(r) + 1
    /\ \A i \in DOMAIN r : d.csv[i + 1] = <<r[i].Reambulador, ToString(r[i].visitas)>>
    /\ Len(d.tabela) = (IF Len(r) < 100 THEN Len(r) ELSE 100)
    /\ \A i \in DOMAIN d.tabela :
          /\ d.tabela[i].Posicao = i
          /\ d.tabela[i].Reambulador = r[i].Reambulador
          /\ d.tabela[i].visitas = r[i].visitas

\* C25: the ranking export holds every ranked agent with its visit count, in
\* ranking order, also for more than 100 agents, when the table on screen
\* shows the first 100; the positions on screen are 1, 2, 3, ... in ranking
\* order.
C25_ExportIsWholeRanking ==
    /\ (pc = "done" /\ ranking # <<>>) => ExportAgrees(ranking, display)
    /\ call.fn = "ranking_display" => \A k \in DOMAIN ret : ExportAgrees(call.ranking, ret[k])

\* a ranking of more than 100 agents was displayed: 100 on screen, all of them
\* in the export
C25_Witness ==
    /\ call.fn = "ranking_display"
    /\ ret # <<>>
    /\ Len(call.ranking) > 100
    /\ Len(ret[1].tabela) = 100
    /\ Len(ret[1].csv) = Len(call.ranking) + 1
    /\ ret[1].tabela[100].Posicao = 100

(***************************************************************************)
(* Upload handling over the reruns                                         *)
(***************************************************************************)
\* C26: in a render cycle after the first one of an uploaded file, with the
\* file still in the uploader, the table is loaded with file_uploaded false
\* (no 'Processando dados...') and the file is not saved to a new temporary
\* path.  Where one file only is ever uploaded, the session holds a path at
\* the start of a cycle exactly when an earlier cycle saved that file.
C26_ProcessingOnlyOnce ==
    [][(/\ pc = "start" /\ pc' = "loaded"
        /\ uploaded_file # NoFile
        /\ session.uploaded_path # NoPath)
       => (/\ "Processando dados..." \notin msgs'
           /\ session'.uploaded_path = session.uploaded_path
           /\ DOMAIN disk' = DOMAIN disk)]_vars

\* C27: when saving the uploaded file fails, uploaded_path and file_uploaded
\* keep their values, the error is shown in the sidebar, and the run goes on
\* with the table loaded before under the session's path, or with no table
\* when the session has no path.
C27_SaveFailureKeepsSession ==
    [][(pc = "start" /\ pc' # "start" /\ "Erro: salvar" \in msgs')
       => (/\ session'.uploaded_path = session.uploaded_path
           /\ session'.file_uploaded = session.file_uploaded
           /\ pc' = "loaded"
           /\ "Carregado" \notin msgs'
           /\ "Processando dados..." \notin msgs'
           /\ IF session.uploaded_path = NoPath
              THEN df' = EmptyDataFrame /\ "Faça upload da planilha" \in msgs'
              ELSE df' = cache[session.uploaded_path].df /\ cache' = cache)]_vars

\* the save of a second file failed and the run went on with the table of the
\* file uploaded before
C27_Witness ==
    /\ pc = "loaded"
    /\ "Erro: salvar" \in msgs
    /\ ~IsEmpty(df)
    /\ ~IsEmpty(uploaded_file.table)
    /\ df.rows[1]["MUNICIPIO"] # uploaded_file.table.rows[1]["MUNICIPIO"]
    /\ session.uploaded_path \in DOMAIN disk
    /\ disk[session.uploaded_path] # uploaded_file

(***************************************************************************)
(* The filters with every option selected, and their buttons               *)
(***************************************************************************)
\* every option the three multiselects offered in this run is selected
AllOptionsSelected ==
    /\ pc \in {"filtered", "done"}
    /\ selected.m = ColumnValues(df, "MUNICIPIO")
    /\ selected.b = ColumnValues(df, "BAIRRO")
    /\ "STATUS" \in df.cols => selected.s = {v \in ColumnValues(df, "STATUS") : ~IsNA(v)}

\* C28: with every option of the municipality, neighbourhood and status
\* filters selected, df_selection is the whole of df: no row is dropped, a row
\* whose STATUS is missing included.
C28_AllSelectedKeepsAll ==
    AllOptionsSelected => df_selection.rows = df.rows

(***************************************************************************)
(* The report of the duplicated identifiers                                *)
(***************************************************************************)
\* the rows of df_selection whose MATRICULA is an identifier other than zero
\* that occurs in more than one row
DuplicatedRows ==
    {i \in DOMAIN Matriculas :
        /\ Matriculas[i].k = "num"
        /\ Matriculas[i].n # 0
        /\ \E j \in DOMAIN Matriculas : j # i /\ Matriculas[j] = Matriculas[i]}

\* a row of the report without its TOTAL_OCORRENCIAS
ReportRow(n) == [x \in df_selection.cols |-> duplicadas[n][x]]

\* C29: the duplicate report holds exactly the rows of df_selection whose
\* MATRICULA is not zero and occurs more than once, each with TOTAL_OCORRENCIAS
\* equal to the number of rows of its MATRICULA (2 at least), in ascending
\* order of MATRICULA, and it has as many rows as the duplicate KPI plus the
\* number of distinct duplicated identifiers.
C29_ReportMatchesKpi ==
    (pc \in {"kpis", "charts", "done"} /\ "MATRICULA" \in df_selection.cols) =>
        /\ \A r \in Range(df_selection.rows) \cup {ReportRow(n) : n \in DOMAIN duplicadas} :
              Cardinality({n \in DOMAIN duplicadas : ReportRow(n) = r})
                  = Cardinality({i \in DuplicatedRows : df_selection.rows[i] = r})
        /\ \A n \in DOMAIN duplicadas :
              /\ duplicadas[n]["TOTAL_OCORRENCIAS"].n =
                    Cardinality({i \in DOMAIN Matriculas :
                                   Matriculas[i] = duplicadas[n]["MATRICULA"]})
              /\ duplicadas[n]["TOTAL_OCORRENCIAS"].n >= 2
        /\ \A n \in 1..(Len(duplicadas) - 1) :
              duplicadas[n]["MATRICULA"].n <= duplicadas[n + 1]["MATRICULA"].n
        /\ Len(duplicadas) = kpi.matriculas_duplicadas
                               + Cardinality({Matriculas[i] : i \in DuplicatedRows})

\* identifiers 7, 5, 0, 7, 5 in the subset: the report lists 5, 5, 7, 7 and the
\* KPI is 2
C29_Witness ==
    /\ pc = "done"
    /\ "MATRICULA" \in df_selection.cols
    /\ Matriculas = <<Num(7), Num(5), Num(0), Num(7), Num(5)>>
    /\ [n \in DOMAIN duplicadas |-> duplicadas[n]["MATRICULA"]]
          = <<Num(5), Num(5), Num(7), Num(7)>>
    /\ kpi.matriculas_duplicadas = 2

(***************************************************************************)
(* The buttons of the filters                                              *)
(***************************************************************************)
\* the bairro options of a run: the neighbourhoods of the selected
\* municipalities
BairroOptions(mun) ==
    {df.rows[i]["BAIRRO"] : i \in {j \in DOMAIN df.rows : df.rows[j]["MUNICIPIO"] \in mun}}

\* C30: in a run started by the 'Limpar' button of a filter the selection of
\* that filter used for df_selection is empty, in a run started by its 'Todos'
\* button it is the full list of options, whatever the multiselect held, and
\* the session stores the selection that was used.
C30_ButtonsSetSelection ==
    [][(pc = "loaded" /\ pc' = "filtered")
       => (/\ pressed = "limpar_mun" => selected'.m = {}
           /\ pressed = "todos_mun" => selected'.m = ColumnValues(df, "MUNICIPIO")
           /\ pressed = "limpar_bairro" => selected'.b = {}
           /\ pressed = "todos_bairro" => selected'.b = BairroOptions(selected'.m)
           /\ pressed = "limpar_status" => selected'.s = {}
           /\ pressed = "todos_status" =>
                 selected'.s = {v \in ColumnValues(df, "STATUS") : ~IsNA(v)}
           /\ session'.municipios = SetTo(selected'.m)
           /\ session'.bairros = SetTo(selected'.b)
           /\ "STATUS" \in df.cols => session'.status = SetTo(selected'.s))]_vars

====
